---- MODULE Spec2Model ----
(***************************************************************************)
(* Smart Attender: device trust, attendance check-in, live subscriptions   *)
(* and the on-device face dataset, modelled from the student app and the   *)
(* teacher portal sources.                                                 *)
(***************************************************************************)
EXTENDS Integers, Sequences, FiniteSets, Bags, TLC

VARIABLES
    \* ---- device trust (services/device-trust.ts) ----
    deviceDirectory,   \* deviceDirectory/{deviceKey}.studentId, NONE when the document is absent
    devices,           \* students/{uid}/devices/{deviceKey}: [approvalState, approvalReason], NONE fields when absent
    profiles,          \* students/{uid}: [activeDeviceKey, deviceApprovalState, deviceApprovalReason]
    isDevice,          \* Device.isDevice of the hardware that holds each device key
    regCalls,          \* the ensureDeviceRegistration calls started so far, each with its position and locals
    \* ---- attendance (services/attendance.ts) ----
    sessionDoc,        \* teachers/{teacherId}/sessions/{sessionId}: [exists, attendees]
    publicAttendances, \* publicSessions/{token}/attendances/{uid}, NONE when absent
    attendanceLogs,    \* students/{uid}/attendanceLogs, in append order
    session,           \* the resolved session handed to recordAttendance: [hasLocation, hasToken, isMock]
    checkIns,          \* the recordAttendance calls in flight (a bag of their locals)
    started,           \* number of recordAttendance calls started
    lastStart,         \* device and profile inputs of the call started last, with the gate's verdict
    lastResult,        \* how the call that ended last ended
    successes,         \* per student, the number of calls that returned a result from the store path
    merged,            \* the students of whom a transactional merge has committed
    \* ---- teacher dashboard (useTeacherSessions.ts, dashboard/page.tsx) ----
    tKey,              \* the teacherId the hook was last rendered with, NONE when signed out
    tMounted,          \* the dashboard page is mounted
    tGen,              \* serial number of the hook's current onSnapshot registration
    tSubscribed,       \* the registration of serial tGen has not been unsubscribed
    tDirty,            \* the query result changed since the last snapshot was delivered
    tPending,          \* transformSnapshot calls in flight
    tSessions,         \* the hook's sessions state
    localSessions,     \* the page's localSessions state names the session
    tSeq,              \* number of snapshots the listener has been called with
    tShownSeq,         \* the snapshot, by its number, that tSessions was derived from
    \* ---- student hooks (use-student-tasks.ts, useAttendanceHistory) ----
    sUser,             \* useAuth().user?.uid in the student app, NONE when signed out
    sHooks,            \* per hook: its listener registration and its state
    taskStatus,        \* students/{uid}/tasks/{taskId}.status of the one task of each student
    \* ---- on-device face dataset (services/face-recognition) ----
    faceSamples,       \* dataset.samples as persisted under STORAGE_KEY
    faceStudents,      \* the keys of dataset.students as persisted
    faceOps,           \* dataset operations between their loadDataset and their saveDataset
    faceClock,         \* number of samples created so far (orders capturedAt)
    faceCalls,         \* number of dataset operations started
    faceLast,          \* the operation that saved last, with the samples it chose from
    \* ---- student app shell (AuthProvider, AuthGate, useStudentProfile) ----
    isFirebaseConfigured, \* lib/firebase isFirebaseConfigured, fixed at start
    authUser,          \* AuthProvider's user, NONE when null
    authLoading,       \* AuthProvider's loading
    authPending,       \* the signIn or signOut call in flight: [op, user]
    isMock,            \* AuthProvider's isMock
    demoAcknowledged,  \* AuthGate's demoAcknowledged
    pLoading,          \* useStudentProfile's loading
    pProfile,          \* useStudentProfile's profile: [owner, complete], owner NONE when null
    pDevice,           \* useStudentProfile's device: [owner, approved], owner NONE when null
    pGen,              \* serial number of the run of the hook's effect whose isMounted is still true
    pDirty,            \* user or refreshKey changed and the effect has not run yet
    pCalls,            \* load() and syncDevice() calls awaiting their service calls
    \* ---- check-in screen (app/(tabs)/check-in.tsx) ----
    scanStep,          \* step: "scan" or "confirm"
    isProcessing,      \* the isProcessing latch
    lastScanned,       \* lastScanned, NONE when null
    hasPending,        \* pendingSession and pendingLocation are set
    scanCalls,         \* handleBarcodeScanned runs awaiting their calls (a bag of scan values)
    submitCalls,       \* number of handleSubmitAttendance runs awaiting recordAttendance
    scanStarts,        \* per scan value, the runs started for it since the last reset
    scanHandled,       \* the scan values whose run has ended since the last reset
    \* ---- student profile bootstrap (services/student-profile.ts) ----
    profileDoc,        \* students/{uid}: "absent", "bare" (no device fields) or "full"
    bootCalls,         \* the ensureStudentProfile calls started so far: [uid, pc, saw]
    trustWritten,      \* the students whose profile ensureDeviceRegistration has updated
    \* ---- device key storage (device-trust.ts getOrCreateDeviceKey) ----
    keyStore,          \* the phone's [secure, plain, legacy] entries, NoKey when not set
    secureStoreAvailable, \* what SecureStore.isAvailableAsync() answers on this phone
    keyCalls,          \* the getOrCreateDeviceKey calls started so far
    keyClock,          \* number of keys generateDeviceKey has produced
    \* ---- free-period tasks (free-period-tasks.ts, useFreePeriodTasks) ----
    hasEndpoint,       \* resolveEndpoint() finds an http(s) endpoint
    taskReqs,          \* the fetchFreePeriodTasks calls started so far
    abortRef,          \* the call whose controller abortRef.current holds, 0 when null
    ideasFallback,     \* the hook's isFallback state
    \* ---- service entry points and their backend guards ----
    storeOps,          \* number of calls that went on to getFirestoreDb()
    opCalls,           \* number of service operations called
    subs,              \* the subscriptions made: [kind, user, delivered, listening]
    \* ---- demo records in AsyncStorage (loadMockDeviceRecord, loadMockProfile) ----
    mockIsPhysical,  \* Boolean(Device.isDevice) of this phone
    mockDevices,       \* per uid, approvalState of the stored mock device record, NONE when absent
    mockProfiles,      \* per uid, deviceApprovalState of the stored mock profile, NONE when absent
    mockCalls,         \* the demo-path calls in flight
    mockStarted,       \* number of demo-path calls started
    \* ---- session QR code (SessionCreator.tsx, parseQrPayload) ----
    qrCreated,         \* the session handleSubmit prepared: its ids and coordinates
    qrData,            \* the JSON text handed to QRCode.toDataURL, as its members
    qrScan,            \* what parseQrPayload made of qrData
    \* ---- proximity of one check-in position (computeProximity) ----
    proxLoc,           \* the distance and the two reported accuracies
    proxOut,           \* computeProximity for proxLoc
    proxPrev,          \* computeProximity before the accuracy was last raised
    \* ---- the session document under runTransaction (recordAttendance) ----
    txnDoc,            \* teachers/{teacherId}/sessions/{sessionId}: [exists, version, attendees]
    txnCalls,          \* the transactional merges started so far, each with its snapshot
    \* ---- session creation (SessionCreator.tsx handleSubmit) ----
    isSubmitting,      \* SessionCreator's isSubmitting
    createCalls,       \* the handleSubmit runs so far, each with the two documents it writes
    \* ---- the dashboard's overview cards (dashboard/page.tsx) ----
    sessionUpcoming,   \* the session's scheduledFor is later than now and its status is not completed
    \* ---- the fallback embedding (bucketise) ----
    imageBytes,        \* bytes.length of the decoded image
    fallbackLength     \* embedding.length of what bucketise returned, 0 before it ran

deviceVars == <<deviceDirectory, devices, profiles, isDevice, regCalls>>
attendanceVars == <<session, sessionDoc, publicAttendances, attendanceLogs, checkIns, started,
                    lastStart, lastResult, successes, merged>>
teacherVars == <<tKey, tMounted, tGen, tSubscribed, tDirty, tPending, tSessions, localSessions,
                 tSeq, tShownSeq>>

hookVars == <<sUser, sHooks, taskStatus>>
faceVars == <<faceSamples, faceStudents, faceOps, faceClock, faceCalls, faceLast>>

gateVars == <<authUser, authLoading, authPending, isMock, demoAcknowledged,
              pLoading, pProfile, pDevice, pGen, pDirty, pCalls>>
scanVars == <<scanStep, isProcessing, lastScanned, hasPending, scanCalls, submitCalls,
              scanStarts, scanHandled>>
bootVars == <<profileDoc, bootCalls, trustWritten>>
keyVars == <<keyStore, secureStoreAvailable, keyCalls, keyClock>>
taskVars == <<hasEndpoint, taskReqs, abortRef, ideasFallback>>
opVars == <<storeOps, opCalls, subs>>
mockVars == <<mockIsPhysical, mockDevices, mockProfiles, mockCalls, mockStarted>>
qrVars == <<qrCreated, qrData, qrScan>>
proxVars == <<proxLoc, proxOut, proxPrev>>
mergeVars == <<txnDoc, txnCalls>>
createVars == <<isSubmitting, createCalls>>
dashVars == <<sessionUpcoming>>
bucketVars == <<imageBytes, fallbackLength>>
tailVars == <<mergeVars, createVars, dashVars, bucketVars>>
laterVars == <<keyVars, taskVars, opVars, mockVars, qrVars, proxVars, tailVars>>
serviceVars == <<bootVars, laterVars>>
restVars == <<isFirebaseConfigured, gateVars, scanVars, laterVars>>
appVars == <<isFirebaseConfigured, gateVars, scanVars, serviceVars>>

vars == <<deviceVars, attendanceVars, teacherVars, hookVars, faceVars, appVars>>

NONE == "none"

Students == {"s1", "s2"}
DeviceKeys == {"k1", "k2"}
Teachers == {"t1", "t2"}
\* the teacher who owns the one session of the model
SessionTeacher == "t1"

\* number of ensureDeviceRegistration calls one behaviour starts
MaxRegCalls == 2

EMULATOR_BLOCK_REASON == "virtual-device"
DEVICE_CONFLICT_REASON == "device-conflict"
DEVICE_VERIFICATION_FAILURE_REASON == "verification-failure"
ANOTHER_DEVICE_REASON == "another-device-approved"

ApprovalStates == {"approved", "pending", "blocked"}

\* outcomes of runTransaction on the directory entry: committed, or rejected
\* with a FirebaseError code
TxnOutcomes == {"ok", "permission-denied", "unavailable"}

\* toDeviceState: anything that is not one of the three states reads as null
toDeviceState(value) == IF value \in ApprovalStates THEN value ELSE NONE

(***************************************************************************)
(* ensureDeviceRegistration                                                *)
(***************************************************************************)

\* the transaction body's ownership test (ownerId && ownerId !== user.uid)
ClaimedByOther(ownerId, uid) == ownerId # NONE /\ ownerId # uid

\* a transaction body that writes its payload without the ownership test
DirectoryAfterClaim_NoOwnerCheck(ownerId, uid) == uid

\* the directory document after the transaction body ran for uid
DirectoryAfterClaim(ownerId, uid) ==
    IF ownerId = NONE THEN uid
    ELSE IF ClaimedByOther(ownerId, uid) THEN ownerId
    ELSE uid

\* a decision that forgets the conflict flag
DecideApproval_IgnoreConflict(c) ==
    IF c.ownershipVerificationFailed
        THEN [state |-> "blocked", reason |-> DEVICE_VERIFICATION_FAILURE_REASON]
    ELSE IF ~isDevice[c.deviceKey]
        THEN [state |-> "blocked", reason |-> EMULATOR_BLOCK_REASON]
    ELSE IF c.storedState # NONE
        THEN [state |-> c.storedState, reason |-> c.storedReason]
    ELSE IF c.currentActiveKey = NONE \/ c.currentActiveKey = c.deviceKey
        THEN [state |-> "approved", reason |-> NONE]
    ELSE [state |-> "pending", reason |-> ANOTHER_DEVICE_REASON]

\* the approval state and reason computed from the call's locals
DecideApproval(c) ==
    IF c.deviceClaimedByOther
        THEN [state |-> "blocked", reason |-> DEVICE_CONFLICT_REASON]
    ELSE IF c.ownershipVerificationFailed
        THEN [state |-> "blocked", reason |-> DEVICE_VERIFICATION_FAILURE_REASON]
    ELSE IF ~isDevice[c.deviceKey]
        THEN [state |-> "blocked", reason |-> EMULATOR_BLOCK_REASON]
    ELSE IF c.storedState # NONE
        THEN [state |-> c.storedState, reason |-> c.storedReason]
    ELSE IF c.currentActiveKey = NONE \/ c.currentActiveKey = c.deviceKey
        THEN [state |-> "approved", reason |-> NONE]
    ELSE [state |-> "pending", reason |-> ANOTHER_DEVICE_REASON]

ShouldUpdateProfile(c) ==
    \/ c.approvalState = "approved"
    \/ c.currentActiveKey = c.deviceKey
    \/ c.currentActiveKey = NONE
    \/ c.storedProfileState # c.approvalState
    \/ c.storedProfileReason # c.approvalReason

NewRegCall(uid, deviceKey) ==
    [ uid |-> uid, deviceKey |-> deviceKey, pc |-> "txn",
      deviceClaimedByOther |-> FALSE, ownershipVerificationFailed |-> FALSE,
      txnOutcome |-> NONE,
      gotProfile |-> FALSE, gotDevice |-> FALSE,
      currentActiveKey |-> NONE, storedProfileState |-> NONE, storedProfileReason |-> NONE,
      storedState |-> NONE, storedReason |-> NONE,
      approvalState |-> NONE, approvalReason |-> NONE ]

\* a signed-in student opens a screen that runs useStudentProfile's effect
StartRegistration(uid, deviceKey) ==
    /\ Len(regCalls) < MaxRegCalls
    /\ regCalls' = Append(regCalls, NewRegCall(uid, deviceKey))
    /\ UNCHANGED <<deviceDirectory, devices, profiles, isDevice, attendanceVars, teacherVars, hookVars, faceVars, appVars>>

\* runTransaction on deviceDirectory/{deviceKey}: the read and the write commit
\* atomically, or the transaction is rejected and the catch block sets a flag
DirectoryTransaction(i, outcome) ==
    LET c == regCalls[i] IN
    /\ c.pc = "txn"
    /\ IF outcome = "ok"
         THEN /\ deviceDirectory' =
                    [deviceDirectory EXCEPT ![c.deviceKey] = DirectoryAfterClaim(@, c.uid)]
              /\ regCalls' = [regCalls EXCEPT ![i] =
                    [c EXCEPT !.pc = "read",
                              !.deviceClaimedByOther =
                                  ClaimedByOther(deviceDirectory[c.deviceKey], c.uid),
                              !.txnOutcome = outcome]]
         ELSE /\ UNCHANGED deviceDirectory
              /\ regCalls' = [regCalls EXCEPT ![i] =
                    [c EXCEPT !.pc = "read", !.txnOutcome = outcome,
                              !.deviceClaimedByOther = (outcome = "permission-denied"),
                              !.ownershipVerificationFailed = (outcome # "permission-denied")]]
    /\ UNCHANGED <<devices, profiles, isDevice, attendanceVars, teacherVars, hookVars, faceVars, appVars>>

\* once both getDoc results of Promise.all are in, the approval state is computed
AfterReads(c) ==
    IF c.gotProfile /\ c.gotDevice
        THEN [c EXCEPT !.pc = "setDevice",
                       !.approvalState = DecideApproval(c).state,
                       !.approvalReason = DecideApproval(c).reason]
        ELSE c

\* getDoc(profileRef)
ReadProfile(i) ==
    LET c == regCalls[i] IN
    /\ c.pc = "read" /\ ~c.gotProfile
    /\ regCalls' = [regCalls EXCEPT ![i] = AfterReads(
            [c EXCEPT !.gotProfile = TRUE,
                      !.currentActiveKey = profiles[c.uid].activeDeviceKey,
                      !.storedProfileState = toDeviceState(profiles[c.uid].deviceApprovalState),
                      !.storedProfileReason = profiles[c.uid].deviceApprovalReason])]
    /\ UNCHANGED <<deviceDirectory, devices, profiles, isDevice, attendanceVars, teacherVars, hookVars, faceVars, appVars>>

\* getDoc(deviceRef)
ReadDevice(i) ==
    LET c == regCalls[i] IN
    /\ c.pc = "read" /\ ~c.gotDevice
    /\ regCalls' = [regCalls EXCEPT ![i] = AfterReads(
            [c EXCEPT !.gotDevice = TRUE,
                      !.storedState = toDeviceState(devices[c.uid][c.deviceKey].approvalState),
                      !.storedReason = devices[c.uid][c.deviceKey].approvalReason])]
    /\ UNCHANGED <<deviceDirectory, devices, profiles, isDevice, attendanceVars, teacherVars, hookVars, faceVars, appVars>>

\* setDoc(deviceRef, devicePayload, {merge: true})
SetDeviceDoc(i) ==
    LET c == regCalls[i] IN
    /\ c.pc = "setDevice"
    /\ devices' = [devices EXCEPT ![c.uid][c.deviceKey] =
            [approvalState |-> c.approvalState, approvalReason |-> c.approvalReason]]
    /\ regCalls' = [regCalls EXCEPT ![i].pc = "updateProfile"]
    /\ UNCHANGED <<deviceDirectory, profiles, isDevice, attendanceVars, teacherVars, hookVars, faceVars, appVars>>

\* updateDoc(profileRef, profileUpdates) when there is anything to update, then
\* return; updateDoc rejects with not-found when the profile document is absent
UpdateProfileDoc(i) ==
    LET c == regCalls[i] IN
    /\ c.pc = "updateProfile"
    /\ IF ~ShouldUpdateProfile(c)
         THEN /\ regCalls' = [regCalls EXCEPT ![i].pc = "done"]
              /\ UNCHANGED <<profiles, profileDoc, trustWritten>>
         ELSE IF profileDoc[c.uid] = "absent"
         THEN /\ regCalls' = [regCalls EXCEPT ![i].pc = "failed"]
              /\ UNCHANGED <<profiles, profileDoc, trustWritten>>
         ELSE /\ profiles' = [profiles EXCEPT ![c.uid] =
                    [activeDeviceKey |-> IF c.approvalState = "approved" THEN c.deviceKey ELSE NONE,
                     deviceApprovalState |-> c.approvalState,
                     deviceApprovalReason |-> c.approvalReason]]
              /\ profileDoc' = [profileDoc EXCEPT ![c.uid] = "full"]
              /\ trustWritten' = trustWritten \cup {c.uid}
              /\ regCalls' = [regCalls EXCEPT ![i].pc = "done"]
    /\ UNCHANGED <<deviceDirectory, devices, isDevice, attendanceVars, teacherVars, hookVars, faceVars,
                   restVars, bootCalls>>

\* the store right after sign-in: ensureStudentProfile has created every profile
\* with nulled device fields, no device is registered, no key is claimed
DeviceStart ==
    /\ deviceDirectory = [k \in DeviceKeys |-> NONE]
    /\ devices = [s \in Students |-> [k \in DeviceKeys |->
            [approvalState |-> NONE, approvalReason |-> NONE]]]
    /\ profiles = [s \in Students |->
            [activeDeviceKey |-> NONE, deviceApprovalState |-> "pending",
             deviceApprovalReason |-> NONE]]
    /\ regCalls = <<>>
    /\ profileDoc = [s \in Students |-> "full"]
    /\ bootCalls = <<>>
    /\ trustWritten = {}

(***************************************************************************)
(* Attendance check-in: computeProximity and recordAttendance              *)
(***************************************************************************)

DEFAULT_THRESHOLD_METERS == 50
\* Number.POSITIVE_INFINITY: greater than every distance, and the one value
\* Number.isFinite rejects
POSITIVE_INFINITY == 1000000000

isFinite(x) == x # POSITIVE_INFINITY

\* accuracy ?? 0 for an optional number, held as <<>> or <<n>>
OrZero(opt) == IF opt = <<>> THEN 0 ELSE opt[1]
Max(a, b) == IF a >= b THEN a ELSE b

\* the positions a check-in is made from: rawDistance is the haversine result
CheckInLocations ==
    { [hasTarget |-> TRUE, rawDistance |-> 60, accuracy |-> <<>>, targetAccuracy |-> <<>>],
      [hasTarget |-> TRUE, rawDistance |-> 60, accuracy |-> <<15>>, targetAccuracy |-> <<5>>] }

\* a subtraction of the uncertainty that is not floored at zero
computeProximity_NoFloor(loc) ==
    IF ~loc.hasTarget THEN POSITIVE_INFINITY
    ELSE LET studentAccuracy == Max(0, OrZero(loc.accuracy))
             targetAccuracy == Max(0, OrZero(loc.targetAccuracy))
             combinedUncertainty == studentAccuracy + targetAccuracy
         IN IF combinedUncertainty = 0 THEN loc.rawDistance
            ELSE loc.rawDistance - combinedUncertainty

computeProximity(loc) ==
    IF ~loc.hasTarget THEN POSITIVE_INFINITY
    ELSE LET studentAccuracy == Max(0, OrZero(loc.accuracy))
             targetAccuracy == Max(0, OrZero(loc.targetAccuracy))
             combinedUncertainty == studentAccuracy + targetAccuracy
         IN IF combinedUncertainty = 0 THEN loc.rawDistance
            ELSE Max(0, loc.rawDistance - combinedUncertainty)

accuracyMargin(loc) ==
    Max(0, OrZero(loc.accuracy))
      + Max(0, IF loc.hasTarget THEN OrZero(loc.targetAccuracy) ELSE 0)

\* the device registrations the check-in screen can hand over: null, or the
\* registration of this phone in any approval state
THIS_DEVICE == "k1"
NoDevice == [registered |-> FALSE, approvalState |-> NONE, deviceKey |-> NONE,
             isPhysicalDevice |-> FALSE]
DeviceInputs ==
    {NoDevice}
      \cup [registered : {TRUE}, approvalState : {"pending", "blocked"},
            deviceKey : {THIS_DEVICE}, isPhysicalDevice : {TRUE}]
      \cup [registered : {TRUE}, approvalState : {"approved"},
            deviceKey : {THIS_DEVICE}, isPhysicalDevice : BOOLEAN]

\* a gate that does not compare the profile's active device key
DeviceGate_NoActiveKeyCheck(device, activeDeviceKey) ==
    IF ~device.registered THEN "not-registered"
    ELSE IF device.approvalState # "approved" THEN "not-approved"
    ELSE "ok"

\* the three precondition checks at the head of recordAttendance
DeviceGate(device, activeDeviceKey) ==
    IF ~device.registered THEN "not-registered"
    ELSE IF device.approvalState # "approved" THEN "not-approved"
    ELSE IF activeDeviceKey # NONE /\ activeDeviceKey # device.deviceKey THEN "other-device"
    ELSE "ok"

\* status decided from proximity and device metadata
AttendanceStatusFor(proximityMeters, isPhysicalDevice) ==
    IF ~isPhysicalDevice THEN "flagged"
    ELSE IF isFinite(proximityMeters) /\ proximityMeters > DEFAULT_THRESHOLD_METERS THEN "flagged"
    ELSE "present"

NotesFor(loc, proximityMeters, isPhysicalDevice) ==
    (IF accuracyMargin(loc) > 0 THEN {"accuracy-adjusted"} ELSE {})
      \cup (IF isFinite(proximityMeters) /\ proximityMeters > DEFAULT_THRESHOLD_METERS
              THEN {"distance-exceeded"} ELSE {})
      \cup {"device-key"}
      \cup (IF ~isPhysicalDevice THEN {"device-virtual"} ELSE {})

\* a catch block that rethrows every transaction error
TransactionErrorTolerated_Never(outcome) == FALSE

\* the catch block of the transactional merge swallows permission-denied only
TransactionErrorTolerated(outcome) == outcome = "permission-denied"

\* attendees with the entry of uid replaced in place, or appended
UpsertAttendee_AlwaysPush(attendees, entry) == Append(attendees, entry)

UpsertAttendee(attendees, entry) ==
    IF \E n \in 1..Len(attendees) : attendees[n].id = entry.id
        THEN [n \in 1..Len(attendees) |->
                 IF n = (CHOOSE m \in 1..Len(attendees) :
                            /\ attendees[m].id = entry.id
                            /\ \A l \in 1..(m - 1) : attendees[l].id # entry.id)
                     THEN entry ELSE attendees[n]]
        ELSE Append(attendees, entry)

\* number of recordAttendance calls one behaviour starts
MaxCheckIns == 2

WriteOutcomes == {"ok", "unavailable"}

NoResult == [pc |-> NONE, error |-> NONE, txnOutcome |-> NONE, wrote |-> {}, notes |-> {}]
NoStart == [device |-> NoDevice, activeDeviceKey |-> NONE, gate |-> NONE]

\* recordAttendance up to its first await: gates, proximity, status, notes,
\* the mock short cut
StartCheckIn(uid, device, activeDeviceKey, loc) ==
    LET gate == DeviceGate(device, activeDeviceKey)
        location == [loc EXCEPT !.hasTarget = session.hasLocation]
        proximityMeters == computeProximity(location)
        status == AttendanceStatusFor(proximityMeters, device.isPhysicalDevice)
        notes == NotesFor(location, proximityMeters, device.isPhysicalDevice)
    IN
    /\ started < MaxCheckIns
    /\ started' = started + 1
    /\ lastStart' = [device |-> device, activeDeviceKey |-> activeDeviceKey, gate |-> gate]
    /\ IF gate # "ok"
         THEN /\ lastResult' = [NoResult EXCEPT !.pc = "rejected", !.error = gate]
              /\ UNCHANGED checkIns
         ELSE IF session.isMock
         THEN /\ lastResult' = [NoResult EXCEPT !.pc = "done", !.notes = notes \cup {"mock-mode"}]
              /\ UNCHANGED checkIns
         ELSE /\ checkIns' = checkIns (+) SetToBag(
                    {[uid |-> uid, pc |-> "txn", status |-> status,
                      proximityMeters |-> proximityMeters, notes |-> notes,
                      txnOutcome |-> NONE, wrote |-> {}]})
              /\ UNCHANGED lastResult
    /\ UNCHANGED <<session, sessionDoc, publicAttendances, attendanceLogs, successes, merged,
                   deviceVars, teacherVars, hookVars, faceVars, appVars>>

Finished(c, pc, error) ==
    [pc |-> pc, error |-> error, txnOutcome |-> c.txnOutcome, wrote |-> c.wrote, notes |-> c.notes]

Replace(bag, old, new) == (bag (-) SetToBag({old})) (+) SetToBag({new})

\* runTransaction on the session document, then the session token check
MergeAttendee(c, outcome) ==
    LET entry == [id |-> c.uid, status |-> c.status]
        committed == outcome = "ok" /\ sessionDoc.exists
        thrown == IF outcome = "ok"
                    THEN (IF sessionDoc.exists THEN NONE ELSE "session-removed")
                    ELSE (IF TransactionErrorTolerated(outcome) THEN NONE ELSE outcome)
        c1 == [c EXCEPT !.txnOutcome = outcome,
                        !.wrote = IF committed THEN {"attendee"} ELSE {},
                        !.notes = IF outcome # "ok" /\ thrown = NONE
                                    THEN c.notes \cup {"sync-pending"} ELSE c.notes]
    IN
    /\ BagIn(c, checkIns) /\ c.pc = "txn"
    /\ sessionDoc' = IF committed
            THEN [sessionDoc EXCEPT !.attendees = UpsertAttendee(@, entry)]
            ELSE sessionDoc
    /\ merged' = IF committed THEN merged \cup {c.uid} ELSE merged
    /\ tDirty' = (tDirty \/ committed)
    /\ IF thrown # NONE
         THEN /\ checkIns' = checkIns (-) SetToBag({c})
              /\ lastResult' = Finished(c1, "failed", thrown)
         ELSE IF ~session.hasToken
         THEN /\ checkIns' = checkIns (-) SetToBag({c})
              /\ lastResult' = Finished(c1, "failed", "token-missing")
         ELSE /\ checkIns' = Replace(checkIns, c, [c1 EXCEPT !.pc = "setPublic"])
              /\ UNCHANGED lastResult
    /\ UNCHANGED <<session, publicAttendances, attendanceLogs, started, lastStart, successes,
                   deviceVars, hookVars, faceVars, tKey, tMounted, tGen, tSubscribed,
                   tPending, tSessions, localSessions, tSeq, tShownSeq, appVars>>

\* setDoc(attendanceRef, attendanceDoc, {merge: true})
SetPublicAttendance(c, outcome) ==
    /\ BagIn(c, checkIns) /\ c.pc = "setPublic"
    /\ IF outcome = "ok"
         THEN /\ publicAttendances' = [publicAttendances EXCEPT ![c.uid] =
                    [exists |-> TRUE, status |-> c.status]]
              /\ checkIns' = Replace(checkIns, c,
                    [c EXCEPT !.pc = "addLog", !.wrote = @ \cup {"public"}])
              /\ UNCHANGED lastResult
         ELSE /\ UNCHANGED publicAttendances
              /\ checkIns' = checkIns (-) SetToBag({c})
              /\ lastResult' = Finished(c, "failed", outcome)
    /\ UNCHANGED <<session, sessionDoc, attendanceLogs, started, lastStart, successes, merged,
                   deviceVars, teacherVars, hookVars, faceVars, appVars>>

\* addDoc(collection(db, 'students', uid, 'attendanceLogs'), attendanceLog), then return
AddAttendanceLog(c, outcome) ==
    /\ BagIn(c, checkIns) /\ c.pc = "addLog"
    /\ checkIns' = checkIns (-) SetToBag({c})
    /\ IF outcome = "ok"
         THEN /\ attendanceLogs' = [attendanceLogs EXCEPT ![c.uid] = Append(@, c.status)]
              /\ successes' = [successes EXCEPT ![c.uid] = @ + 1]
              /\ lastResult' = Finished([c EXCEPT !.wrote = @ \cup {"log"}], "done", NONE)
         ELSE /\ UNCHANGED <<attendanceLogs, successes>>
              /\ lastResult' = Finished(c, "failed", outcome)
    /\ sHooks' = IF outcome = "ok" /\ c.uid = sUser /\ sHooks["history"].subscribed
            THEN [sHooks EXCEPT !["history"].dirty = TRUE]
            ELSE sHooks
    /\ UNCHANGED <<session, sessionDoc, publicAttendances, started, lastStart, merged,
                   deviceVars, teacherVars, sUser, taskStatus, faceVars, appVars>>

(***************************************************************************)
(* Teacher dashboard: useTeacherSessions and the page's combined list      *)
(***************************************************************************)

SESSION_ID == "session-1"

\* number of onSnapshot registrations one dashboard page makes
MaxSubscriptions == 2

AttendeeIds(attendees) == {attendees[n].id : n \in 1..Len(attendees)}

\* the session documents the query for teacher key returns
QueryHasSession(key) == key = SessionTeacher /\ sessionDoc.exists

\* the snapshot listener body up to its await: transformSnapshot starts on the
\* documents of the snapshot
DeliverSnapshot ==
    /\ tMounted /\ tSubscribed /\ tDirty
    /\ tDirty' = FALSE
    /\ tSeq' = tSeq + 1
    /\ tPending' = tPending \cup
          { [gen |-> tGen, seq |-> tSeq + 1,
             hasSession |-> QueryHasSession(tKey),
             attendees |-> IF QueryHasSession(tKey) THEN AttendeeIds(sessionDoc.attendees) ELSE {},
             stage |-> IF QueryHasSession(tKey) THEN "load" ELSE "set"] }
    /\ UNCHANGED <<tKey, tMounted, tGen, tSubscribed, tSessions, localSessions, tShownSeq,
                   deviceVars, attendanceVars, hookVars, faceVars, appVars>>

\* a merge that always keeps the attendees embedded in the session document
CombineAttendees_DocOnly(docAttendees, publicAttendees) == docAttendees

\* combinedAttendees: the public records replace the embedded list when any exist
CombineAttendees(docAttendees, publicAttendees) ==
    IF publicAttendees # {} THEN publicAttendees ELSE docAttendees

\* loadPublicAttendees(sessionToken): getDocs on the mirror's attendances, [] on error
LoadPublicAttendees(p, outcome) ==
    /\ p \in tPending /\ p.stage = "load"
    /\ LET publicAttendees == IF outcome = "ok"
                                THEN {s \in Students : publicAttendances[s].exists}
                                ELSE {}
       IN tPending' = (tPending \ {p}) \cup
             { [p EXCEPT !.stage = "set",
                         !.attendees = CombineAttendees(p.attendees, publicAttendees)] }
    /\ UNCHANGED <<tKey, tMounted, tGen, tSubscribed, tDirty, tSessions, localSessions,
                   tSeq, tShownSeq, deviceVars, attendanceVars, hookVars, faceVars, appVars>>

\* the listener's continuation: setSessions(nextSessions); setLoading(false)
SetSessions(p) ==
    /\ p \in tPending /\ p.stage = "set"
    /\ tPending' = tPending \ {p}
    /\ tSessions' = IF tMounted
          THEN [gen |-> p.gen, kind |-> "snapshot", hasSession |-> p.hasSession,
                attendees |-> p.attendees, loading |-> FALSE]
          ELSE tSessions
    /\ tShownSeq' = IF tMounted THEN p.seq ELSE tShownSeq
    /\ UNCHANGED <<tKey, tMounted, tGen, tSubscribed, tDirty, localSessions, tSeq,
                   deviceVars, attendanceVars, hookVars, faceVars, appVars>>

\* the effect of useTeacherSessions re-runs for a new teacherId: the cleanup
\* unsubscribes, then mock sessions are set or a new listener is registered
TeacherKeyChange(newKey) ==
    /\ tMounted /\ newKey # tKey
    /\ tKey' = newKey
    /\ IF newKey = NONE
         THEN /\ tSubscribed' = FALSE
              /\ tSessions' = [gen |-> 0, kind |-> "mock", hasSession |-> FALSE,
                               attendees |-> {}, loading |-> FALSE]
              /\ UNCHANGED <<tGen, tDirty>>
         ELSE /\ tGen < MaxSubscriptions
              /\ tGen' = tGen + 1
              /\ tSubscribed' = TRUE
              /\ tDirty' = TRUE
              /\ UNCHANGED tSessions
    /\ UNCHANGED <<tMounted, tPending, localSessions, tSeq, tShownSeq, deviceVars, attendanceVars,
                   hookVars, faceVars, appVars>>

\* the dashboard unmounts: the effect's cleanup unsubscribes
TeacherUnmount ==
    /\ tMounted
    /\ tMounted' = FALSE
    /\ tSubscribed' = FALSE
    /\ UNCHANGED <<tKey, tGen, tDirty, tPending, tSessions, localSessions, tSeq, tShownSeq,
                   deviceVars, attendanceVars, hookVars, faceVars, appVars>>

\* attendees of the session in the page's combinedSessions: a session held in
\* localSessions hides the subscribed copy with the same id
ShownAttendees ==
    IF SESSION_ID \in localSessions THEN {}
    ELSE IF tSessions.hasSession THEN tSessions.attendees
    ELSE {}

(***************************************************************************)
(* Student hooks: useStudentTasks and useAttendanceHistory                 *)
(***************************************************************************)

HookNames == {"tasks", "history"}

\* what a listener of the hook reads for a student: the status of the task,
\* or the number of attendance logs
HookData(h, uid) ==
    IF h = "tasks" THEN taskStatus[uid] ELSE Len(attendanceLogs[uid])

\* the hook's state before any data: tasks = [], records = []
EmptyData(h) == IF h = "tasks" THEN NONE ELSE 0

\* the snapshot callback of the hook's listener: setTasks/setRecords
StudentSnapshot(h) ==
    /\ sHooks[h].mounted /\ sHooks[h].subscribed /\ sHooks[h].dirty
    /\ sHooks' = [sHooks EXCEPT ![h].dirty = FALSE,
                                ![h].stateGen = sHooks[h].gen,
                                ![h].payload = HookData(h, sUser)]
    /\ UNCHANGED <<sUser, taskStatus, deviceVars, attendanceVars, teacherVars, faceVars, appVars>>

\* the effect of a hook for a new run: the empty state without a user, or a
\* new listener
HookEffect(hook, user) ==
    IF ~hook.mounted THEN hook
    ELSE IF user = NONE
        THEN [hook EXCEPT !.subscribed = FALSE, !.dirty = FALSE,
                          !.gen = @ + 1, !.stateGen = hook.gen + 1]
        ELSE [hook EXCEPT !.subscribed = TRUE, !.dirty = TRUE, !.gen = @ + 1]

\* useAuth().user changes: in each mounted hook the cleanup unsubscribes and
\* the effect runs again
StudentUserChange(newUser) ==
    /\ newUser # sUser
    /\ \A h \in HookNames : sHooks[h].mounted => sHooks[h].gen < MaxSubscriptions
    /\ sUser' = newUser
    /\ sHooks' = [h \in HookNames |->
          IF newUser = NONE /\ sHooks[h].mounted
              THEN [HookEffect(sHooks[h], newUser) EXCEPT !.payload = EmptyData(h)]
              ELSE HookEffect(sHooks[h], newUser)]
    /\ UNCHANGED <<taskStatus, deviceVars, attendanceVars, teacherVars, faceVars, appVars>>

\* refresh(): refreshKey changes and the effect runs again
StudentRefresh(h) ==
    /\ sHooks[h].mounted /\ sHooks[h].gen < MaxSubscriptions
    /\ sHooks' = [sHooks EXCEPT ![h] =
          IF sUser = NONE
              THEN [HookEffect(@, sUser) EXCEPT !.payload = EmptyData(h)]
              ELSE HookEffect(@, sUser)]
    /\ UNCHANGED <<sUser, taskStatus, deviceVars, attendanceVars, teacherVars, faceVars, appVars>>

\* the screen of the hook unmounts: the cleanup unsubscribes
StudentHookUnmount(h) ==
    /\ sHooks[h].mounted
    /\ sHooks' = [sHooks EXCEPT ![h].mounted = FALSE, ![h].subscribed = FALSE]
    /\ UNCHANGED <<sUser, taskStatus, deviceVars, attendanceVars, teacherVars, faceVars, appVars>>

\* toggleTaskStatus: completed becomes pending, anything else completed
ToggleTask ==
    /\ sUser # NONE /\ sHooks["tasks"].mounted
    /\ taskStatus' = [taskStatus EXCEPT ![sUser] =
                         IF @ = "completed" THEN "pending" ELSE "completed"]
    /\ sHooks' = IF sHooks["tasks"].subscribed
                   THEN [sHooks EXCEPT !["tasks"].dirty = TRUE] ELSE sHooks
    /\ UNCHANGED <<sUser, deviceVars, attendanceVars, teacherVars, faceVars, appVars>>

\* the store and the dashboard before any check-in: the teacher's dashboard is
\* mounted and its listener registered; exists tells whether the session
\* document has been created
SessionStart(exists) ==
    /\ sessionDoc = [exists |-> exists, attendees |-> <<>>]
    /\ publicAttendances = [s \in Students |-> [exists |-> FALSE, status |-> NONE]]
    /\ attendanceLogs = [s \in Students |-> <<>>]
    /\ checkIns = EmptyBag
    /\ started = 0
    /\ lastStart = NoStart
    /\ lastResult = NoResult
    /\ successes = [s \in Students |-> 0]
    /\ merged = {}
    /\ tKey = SessionTeacher
    /\ tMounted = TRUE
    /\ tGen = 1
    /\ tSubscribed = TRUE
    /\ tDirty = TRUE
    /\ tPending = {}
    /\ tSeq = 0
    /\ tShownSeq = 0
    /\ tSessions = [gen |-> 0, kind |-> "initial", hasSession |-> FALSE,
                    attendees |-> {}, loading |-> TRUE]

\* one session exists with its public mirror and no attendance yet
AttendanceStart == SessionStart(TRUE)

\* a student is signed in and both hooks have registered their listeners
HooksStart ==
    /\ sUser = "s1"
    /\ sHooks = [h \in HookNames |->
          [gen |-> 1, subscribed |-> TRUE, mounted |-> TRUE, dirty |-> TRUE,
           stateGen |-> 0, payload |-> EmptyData(h)]]
    /\ taskStatus = [s \in Students |-> "pending"]

\* the QR contents the camera reports
ScanValues == {"qr-a", "qr-b"}

NoAuthCall == [op |-> NONE, user |-> NONE]
NoProfile == [owner |-> NONE, complete |-> FALSE]
NoRegistration == [owner |-> NONE, approved |-> FALSE]

\* the app right after launch: AuthProvider's and the hooks' initial state
ShellStart(configured) ==
    /\ isFirebaseConfigured = configured
    /\ authUser = NONE
    /\ authLoading = TRUE
    /\ authPending = NoAuthCall
    /\ isMock = ~configured
    /\ demoAcknowledged = FALSE
    /\ pLoading = TRUE
    /\ pProfile = NoProfile
    /\ pDevice = NoRegistration
    /\ pGen = 0
    /\ pDirty = TRUE
    /\ pCalls = {}
    /\ scanStep = "scan"
    /\ isProcessing = FALSE
    /\ lastScanned = NONE
    /\ hasPending = FALSE
    /\ scanCalls = EmptyBag
    /\ submitCalls = 0
    /\ scanStarts = [v \in ScanValues |-> 0]
    /\ scanHandled = {}

\* no key entry is set
NoKey == 0

\* a phone on which the app has never run
KeyStart ==
    /\ keyStore = [secure |-> NoKey, plain |-> NoKey, legacy |-> NoKey]
    /\ secureStoreAvailable = TRUE
    /\ keyCalls = <<>>
    /\ keyClock = 0

\* the ideas screen has not been opened
TaskStart ==
    /\ hasEndpoint = TRUE
    /\ taskReqs = <<>>
    /\ abortRef = 0
    /\ ideasFallback = FALSE

\* no service has been called
OpStart ==
    /\ storeOps = 0
    /\ opCalls = 0
    /\ subs = <<>>

\* nothing is stored under the mock prefixes
MockStart ==
    /\ mockIsPhysical = TRUE
    /\ mockDevices = [s \in Students |-> NONE]
    /\ mockProfiles = [s \in Students |-> NONE]
    /\ mockCalls = {}
    /\ mockStarted = 0

NoSession == [made |-> FALSE, sessionId |-> <<>>, sessionToken |-> <<>>,
              latitude |-> 0, longitude |-> 0, accuracy |-> 0]
NoScan == [status |-> NONE, sessionId |-> <<>>, sessionToken |-> <<>>,
           latitude |-> 0, longitude |-> 0, accuracy |-> 0]

\* no session has been prepared on the teacher's page, nothing was scanned
QrStart ==
    /\ qrCreated = NoSession
    /\ qrData = <<>>
    /\ qrScan = NoScan

\* nothing measured yet: a position on the spot with no accuracy reported
ProxStart ==
    /\ proxLoc = [hasTarget |-> TRUE, rawDistance |-> 0, accuracy |-> <<>>, targetAccuracy |-> <<>>]
    /\ proxOut = 0
    /\ proxPrev = 0

MergeStart ==
    /\ txnDoc = [exists |-> TRUE, version |-> 0, attendees |-> <<>>]
    /\ txnCalls = <<>>

CreateStart ==
    /\ isSubmitting = FALSE
    /\ createCalls = <<>>

DashStart == sessionUpcoming = TRUE

BucketStart == imageBytes = 1 /\ fallbackLength = 0

TailStart == MergeStart /\ CreateStart /\ DashStart /\ BucketStart

LaterStart ==
    KeyStart /\ TaskStart /\ OpStart /\ MockStart /\ QrStart /\ ProxStart /\ TailStart

AppStart(configured) == ShellStart(configured) /\ LaterStart

NoFaceOp == [kind |-> NONE, studentId |-> NONE, classId |-> NONE, candidates |-> <<>>]

\* nothing is stored under STORAGE_KEY
FaceStart ==
    /\ faceSamples = <<>>
    /\ faceStudents = {}
    /\ faceOps = {}
    /\ faceClock = 0
    /\ faceCalls = 0
    /\ faceLast = NoFaceOp

\* a configured backend, a session with its token and its capture location
InitAttendance ==
    /\ AppStart(TRUE)
    /\ AttendanceStart /\ HooksStart /\ FaceStart
    /\ session \in [hasLocation : BOOLEAN, hasToken : BOOLEAN, isMock : BOOLEAN]
    /\ localSessions = {}
    /\ DeviceStart
    /\ isDevice = [k \in DeviceKeys |-> TRUE]

NextAttendance ==
    \/ \E uid \in Students, device \in DeviceInputs, key \in DeviceKeys \cup {NONE},
          loc \in CheckInLocations : StartCheckIn(uid, device, key, loc)
    \/ \E c \in BagToSet(checkIns), o \in TxnOutcomes : MergeAttendee(c, o)
    \/ \E c \in BagToSet(checkIns), o \in WriteOutcomes : SetPublicAttendance(c, o)
    \/ \E c \in BagToSet(checkIns), o \in WriteOutcomes : AddAttendanceLog(c, o)

SpecAttendance == InitAttendance /\ [][NextAttendance]_vars

(***************************************************************************)
(* Check-ins seen from the teacher dashboard                               *)
(***************************************************************************)

ApprovedDevice == [registered |-> TRUE, deviceKey |-> THIS_DEVICE,
                   approvalState |-> "approved", isPhysicalDevice |-> TRUE]

\* a check-in that passes the gates: approved physical device, no other
\* active device, a location within the threshold
StartLiveCheckIn(uid) ==
    \E loc \in {l \in CheckInLocations : l.accuracy # <<>>} :
        StartCheckIn(uid, ApprovedDevice, NONE, loc)

\* a configured backend and a session with token and location; the session
\* was created before the page loaded, or from this page's SessionCreator,
\* whose onSessionCreated put it into localSessions
InitLive ==
    /\ AppStart(TRUE)
    /\ AttendanceStart /\ HooksStart /\ FaceStart
    /\ session = [hasLocation |-> TRUE, hasToken |-> TRUE, isMock |-> FALSE]
    /\ localSessions \in {{}, {SESSION_ID}}
    /\ DeviceStart
    /\ isDevice = [k \in DeviceKeys |-> TRUE]

CheckInStep ==
    \/ \E c \in BagToSet(checkIns), o \in TxnOutcomes : MergeAttendee(c, o)
    \/ \E c \in BagToSet(checkIns), o \in WriteOutcomes : SetPublicAttendance(c, o)
    \/ \E c \in BagToSet(checkIns), o \in WriteOutcomes : AddAttendanceLog(c, o)

ListenerStep ==
    \/ DeliverSnapshot
    \/ \E p \in tPending, o \in WriteOutcomes : LoadPublicAttendees(p, o)
    \/ \E p \in tPending : SetSessions(p)

NextLive ==
    \/ \E uid \in Students : StartLiveCheckIn(uid)
    \/ CheckInStep
    \/ ListenerStep

\* every store call returns, every pending snapshot is delivered and every
\* continuation of the listener runs
FairLive ==
    /\ WF_vars(CheckInStep)
    /\ WF_vars(DeliverSnapshot)
    /\ WF_vars(\E p \in tPending, o \in WriteOutcomes : LoadPublicAttendees(p, o))
    /\ WF_vars(\E p \in tPending : SetSessions(p))

SpecLive == InitLive /\ [][NextLive]_vars /\ FairLive

(***************************************************************************)
(* Hook life cycles                                                        *)
(***************************************************************************)

\* the listeners and the life cycle of the three hooks, over a store in which
\* the student's task is the only document that changes
NextHooks ==
    \/ ListenerStep
    \/ \E key \in Teachers \cup {NONE} : TeacherKeyChange(key)
    \/ TeacherUnmount
    \/ \E h \in HookNames : StudentSnapshot(h)
    \/ \E u \in Students \cup {NONE} : StudentUserChange(u)
    \/ \E h \in HookNames : StudentRefresh(h)
    \/ \E h \in HookNames : StudentHookUnmount(h)
    \/ ToggleTask

SpecHooks == InitLive /\ [][NextHooks]_vars


InitDevice ==
    /\ AppStart(TRUE)
    /\ DeviceStart /\ HooksStart /\ FaceStart
    /\ isDevice \in [DeviceKeys -> BOOLEAN]
    /\ AttendanceStart /\ localSessions = {}
    /\ session = [hasLocation |-> TRUE, hasToken |-> TRUE, isMock |-> FALSE]

NextDevice ==
    \/ \E uid \in Students, k \in DeviceKeys : StartRegistration(uid, k)
    \/ \E i \in 1..Len(regCalls), o \in TxnOutcomes : DirectoryTransaction(i, o)
    \/ \E i \in 1..Len(regCalls) : ReadProfile(i)
    \/ \E i \in 1..Len(regCalls) : ReadDevice(i)
    \/ \E i \in 1..Len(regCalls) : SetDeviceDoc(i)
    \/ \E i \in 1..Len(regCalls) : UpdateProfileDoc(i)

SpecDevice == InitDevice /\ [][NextDevice]_vars

(***************************************************************************)
(* On-device face dataset (services/face-recognition)                      *)
(***************************************************************************)

MAX_SAMPLES_PER_STUDENT == 10
PROFILE_CLASS_ID == "__profile__"

FaceClassIds == {PROFILE_CLASS_ID, "class-1"}

\* embedding.length of the landmark model's vectors and of the byte-bucket
\* fallback; only their equality is ever tested
EmbeddingLengths == {"landmarks", "fallback"}

\* number of dataset operations one behaviour starts
MaxFaceCalls == 3
\* number of dataset operations between load and save at one time
MaxFaceOps == 2

\* embeddings.length of the batches handed to seedFaceEmbeddings
SeedBatchSizes == {MAX_SAMPLES_PER_STUDENT + 1}

PairSamples(samples, studentId, classId) ==
    SelectSeq(samples, LAMBDA x : x.studentId = studentId /\ x.classId = classId)

WithoutPair(samples, studentId, classId) ==
    SelectSeq(samples, LAMBDA x : ~(x.studentId = studentId /\ x.classId = classId))

\* a truncation that keeps the head of the list
truncateSamples_KeepOldest(samples) ==
    IF Len(samples) <= MAX_SAMPLES_PER_STUDENT THEN samples
    ELSE SubSeq(samples, 1, MAX_SAMPLES_PER_STUDENT)

\* samples.slice(samples.length - MAX_SAMPLES_PER_STUDENT) when longer
truncateSamples(samples) ==
    IF Len(samples) <= MAX_SAMPLES_PER_STUDENT THEN samples
    ELSE SubSeq(samples, Len(samples) - MAX_SAMPLES_PER_STUDENT + 1, Len(samples))

\* createSample for n embeddings in order, the first at time clock + 1
createSamples(studentId, classId, dim, n, clock) ==
    [i \in 1..n |-> [studentId |-> studentId, classId |-> classId, dim |-> dim,
                     capturedAt |-> clock + i]]

Retag(samples, classId) == [i \in 1..Len(samples) |-> [samples[i] EXCEPT !.classId = classId]]

CapturedAt(samples) == [i \in 1..Len(samples) |-> samples[i].capturedAt]

\* seedFaceEmbeddings with n valid embeddings of one length and a
\* studentProfile, from loadDataset up to the await of saveDataset
SeedLoad(studentId, classId, dim, n) ==
    LET created == createSamples(studentId, classId, dim, n, faceClock)
        nextSamples == truncateSamples(created)
    IN
    /\ Cardinality(faceOps) < MaxFaceOps
    /\ faceCalls < MaxFaceCalls
    /\ faceCalls' = faceCalls + 1
    /\ faceClock' = faceClock + n
    /\ faceOps' = faceOps \cup
          { [kind |-> "seed", studentId |-> studentId, classId |-> classId,
             samples |-> WithoutPair(faceSamples, studentId, classId) \o nextSamples,
             students |-> faceStudents \cup {studentId},
             candidates |-> CapturedAt(PairSamples(faceSamples, studentId, classId) \o created)] }
    /\ UNCHANGED <<faceSamples, faceStudents, faceLast,
                   deviceVars, attendanceVars, teacherVars, hookVars, appVars>>

\* analyzeAndStoreFaceSample for an embedding of length dim, from loadDataset
\* up to the await of saveDataset
AnalyzeLoad(studentId, classId, dim) ==
    LET purged == SelectSeq(faceSamples, LAMBDA x : ~(x.studentId = studentId /\ x.dim # dim))
        existingSamples == PairSamples(purged, studentId, classId)
        fallbackProfileSamples ==
            IF classId # PROFILE_CLASS_ID
                THEN Retag(LET profile == PairSamples(purged, studentId, PROFILE_CLASS_ID)
                           IN IF Len(profile) <= MAX_SAMPLES_PER_STUDENT THEN profile
                              ELSE SubSeq(profile, Len(profile) - MAX_SAMPLES_PER_STUDENT + 1,
                                          Len(profile)),
                           classId)
                ELSE <<>>
        seededSamples == IF Len(existingSamples) > 0 THEN existingSamples
                         ELSE fallbackProfileSamples
        candidates == seededSamples \o createSamples(studentId, classId, dim, 1, faceClock)
        nextSamples == truncateSamples(candidates)
    IN
    /\ Cardinality(faceOps) < MaxFaceOps
    /\ faceCalls < MaxFaceCalls
    /\ faceCalls' = faceCalls + 1
    /\ faceClock' = faceClock + 1
    /\ faceOps' = faceOps \cup
          { [kind |-> "analyze", studentId |-> studentId, classId |-> classId,
             samples |-> WithoutPair(purged, studentId, classId) \o nextSamples,
             students |-> faceStudents \cup {studentId},
             candidates |-> CapturedAt(candidates)] }
    /\ UNCHANGED <<faceSamples, faceStudents, faceLast,
                   deviceVars, attendanceVars, teacherVars, hookVars, appVars>>

\* clearSamplesForStudent, from loadDataset up to the await of saveDataset
ClearLoad(studentId) ==
    /\ Cardinality(faceOps) < MaxFaceOps
    /\ faceCalls < MaxFaceCalls
    /\ faceCalls' = faceCalls + 1
    /\ faceOps' = faceOps \cup
          { [kind |-> "clear", studentId |-> studentId, classId |-> NONE,
             samples |-> SelectSeq(faceSamples, LAMBDA x : x.studentId # studentId),
             students |-> faceStudents \ {studentId},
             candidates |-> <<>>] }
    /\ UNCHANGED <<faceSamples, faceStudents, faceClock, faceLast,
                   deviceVars, attendanceVars, teacherVars, hookVars, appVars>>

\* saveDataset(dataset): the operation's dataset replaces the stored one
FaceSave(op) ==
    /\ op \in faceOps
    /\ faceOps' = faceOps \ {op}
    /\ faceSamples' = op.samples
    /\ faceStudents' = op.students
    /\ faceLast' = [kind |-> op.kind, studentId |-> op.studentId, classId |-> op.classId,
                    candidates |-> op.candidates]
    /\ UNCHANGED <<faceClock, faceCalls, deviceVars, attendanceVars, teacherVars, hookVars, appVars>>

InitFace ==
    /\ AppStart(TRUE)
    /\ FaceStart /\ AttendanceStart /\ HooksStart /\ DeviceStart
    /\ session = [hasLocation |-> TRUE, hasToken |-> TRUE, isMock |-> FALSE]
    /\ localSessions = {}
    /\ isDevice = [k \in DeviceKeys |-> TRUE]

NextFace ==
    \/ \E studentId \in Students, classId \in FaceClassIds, dim \in EmbeddingLengths,
          n \in SeedBatchSizes : SeedLoad(studentId, classId, dim, n)
    \/ \E studentId \in Students, classId \in FaceClassIds, dim \in EmbeddingLengths :
              AnalyzeLoad(studentId, classId, dim)
    \/ \E studentId \in Students : ClearLoad(studentId)
    \/ \E op \in faceOps : FaceSave(op)

SpecFace == InitFace /\ [][NextFace]_vars

(***************************************************************************)
(* Student app shell: AuthProvider, useStudentProfile and AuthGate         *)
(***************************************************************************)

\* number of runs of the effect of useStudentProfile
MaxProfileLoads == 3

\* isProfileComplete(profile, false) and isDeviceApproved(device) on the hook's state
needsDetails == ~pProfile.complete
needsDeviceApproval == ~pDevice.approved

\* a gate that sends only incomplete profiles to onboarding
AuthGateScreen_NoDeviceCheck(loading, user, mock, acknowledged, profileLoading, details, approval) ==
    IF loading THEN "loading"
    ELSE IF user = NONE /\ ~mock THEN "sign-in"
    ELSE IF mock /\ ~acknowledged THEN "demo-notice"
    ELSE IF user # NONE /\ profileLoading THEN "status"
    ELSE IF user # NONE /\ details THEN "onboarding"
    ELSE "children"

\* what AuthGate returns
AuthGateScreen(loading, user, mock, acknowledged, profileLoading, details, approval) ==
    IF loading THEN "loading"
    ELSE IF user = NONE /\ ~mock THEN "sign-in"
    ELSE IF mock /\ ~acknowledged THEN "demo-notice"
    ELSE IF user # NONE /\ profileLoading THEN "status"
    ELSE IF user # NONE /\ (details \/ approval) THEN "onboarding"
    ELSE "children"

Screen ==
    AuthGateScreen(authLoading, authUser, isMock, demoAcknowledged, pLoading,
                   needsDetails, needsDeviceApproval)

\* setUser(next): useStudentProfile's effect is due when the user changes
UserBecomes(next) ==
    /\ authUser' = next
    /\ pDirty' = (pDirty \/ next # authUser)

\* AuthProvider's effect without a backend: setLoading(false)
AuthInitUnconfigured ==
    /\ ~isFirebaseConfigured /\ authLoading /\ authPending = NoAuthCall /\ ~pDirty
    /\ authLoading' = FALSE
    /\ UNCHANGED <<isFirebaseConfigured, authUser, authPending, isMock, demoAcknowledged,
                   pLoading, pProfile, pDevice, pGen, pDirty, pCalls,
                   deviceVars, attendanceVars, teacherVars, hookVars, faceVars, scanVars, serviceVars>>

\* the onAuthStateChanged listener: at launch with the persisted user or null,
\* and after a sign-in or sign-out of the auth service
AuthStateChanged(firebaseUser) ==
    /\ isFirebaseConfigured /\ ~pDirty
    /\ \/ authLoading /\ authPending = NoAuthCall
       \/ authPending.op = "signIn" /\ firebaseUser = authPending.user /\ authUser = NONE
       \/ authPending.op = "signOut" /\ firebaseUser = NONE /\ authUser # NONE
    /\ UserBecomes(firebaseUser)
    /\ authLoading' = FALSE
    /\ UNCHANGED <<isFirebaseConfigured, authPending, isMock, demoAcknowledged,
                   pLoading, pProfile, pDevice, pGen, pCalls,
                   deviceVars, attendanceVars, teacherVars, hookVars, faceVars, scanVars, serviceVars>>

\* signIn from the login screen: at once with a mock student, else up to the
\* await of signInWithEmailAndPassword
SignIn(user) ==
    /\ authUser = NONE /\ ~authLoading /\ authPending = NoAuthCall /\ ~pDirty
    /\ Screen \in {"sign-in", "children"}
    /\ IF isFirebaseConfigured
         THEN /\ authLoading' = TRUE
              /\ authPending' = [op |-> "signIn", user |-> user]
              /\ UNCHANGED <<authUser, isMock, pDirty>>
         ELSE /\ UserBecomes(user)
              /\ isMock' = TRUE
              /\ UNCHANGED <<authLoading, authPending>>
    /\ UNCHANGED <<isFirebaseConfigured, demoAcknowledged, pLoading, pProfile, pDevice, pGen,
                   pCalls, deviceVars, attendanceVars, teacherVars, hookVars, faceVars,
                   scanVars, serviceVars>>

\* signOut: at once without a backend, else up to the await of firebaseSignOut
SignOut ==
    /\ authUser # NONE /\ ~authLoading /\ authPending = NoAuthCall /\ ~pDirty
    /\ IF isFirebaseConfigured
         THEN /\ authLoading' = TRUE
              /\ authPending' = [op |-> "signOut", user |-> NONE]
              /\ UNCHANGED <<authUser, pDirty>>
         ELSE /\ UserBecomes(NONE)
              /\ UNCHANGED <<authLoading, authPending>>
    /\ UNCHANGED <<isFirebaseConfigured, isMock, demoAcknowledged, pLoading, pProfile, pDevice,
                   pGen, pCalls, deviceVars, attendanceVars, teacherVars, hookVars, faceVars,
                   scanVars, serviceVars>>

\* the continuation of signIn or signOut after its await, with its finally
AuthCallDone(ok) ==
    /\ authPending # NoAuthCall /\ ~pDirty
    /\ authPending' = NoAuthCall
    /\ authLoading' = FALSE
    /\ IF ok THEN UserBecomes(authPending.user) ELSE UNCHANGED <<authUser, pDirty>>
    /\ isMock' = IF ok /\ authPending.op = "signIn" THEN FALSE ELSE isMock
    /\ UNCHANGED <<isFirebaseConfigured, demoAcknowledged, pLoading, pProfile, pDevice, pGen,
                   pCalls, deviceVars, attendanceVars, teacherVars, hookVars, faceVars,
                   scanVars, serviceVars>>

\* DemoModeNotice's onContinue
AcknowledgeDemo ==
    /\ Screen = "demo-notice" /\ ~pDirty
    /\ demoAcknowledged' = TRUE
    /\ UNCHANGED <<isFirebaseConfigured, authUser, authLoading, authPending, isMock,
                   pLoading, pProfile, pDevice, pGen, pDirty, pCalls,
                   deviceVars, attendanceVars, teacherVars, hookVars, faceVars, scanVars, serviceVars>>

\* the effect of useStudentProfile: the cleanup of the previous run clears its
\* isMounted, then load() runs up to its await
ProfileEffect ==
    /\ pDirty /\ pGen < MaxProfileLoads
    /\ pDirty' = FALSE
    /\ pGen' = pGen + 1
    /\ IF authUser = NONE
         THEN /\ pProfile' = NoProfile
              /\ pDevice' = NoRegistration
              /\ pLoading' = FALSE
              /\ UNCHANGED pCalls
         ELSE /\ pLoading' = TRUE
              /\ pCalls' = pCalls \cup {[kind |-> "load", user |-> authUser, gen |-> pGen + 1]}
              /\ UNCHANGED <<pProfile, pDevice>>
    /\ UNCHANGED <<isFirebaseConfigured, authUser, authLoading, authPending, isMock,
                   demoAcknowledged, deviceVars, attendanceVars, teacherVars, hookVars, faceVars, scanVars, serviceVars>>

\* what fetchStudentProfile and ensureDeviceRegistration hand back, or a throw
LoadResults ==
    {[ok |-> FALSE, complete |-> FALSE, approved |-> FALSE]}
      \cup [ok : {TRUE}, complete : BOOLEAN, approved : BOOLEAN]

\* load() after Promise.all: nothing when its isMounted was cleared
LoadDone(c, result) ==
    /\ c \in pCalls /\ c.kind = "load" /\ ~pDirty
    /\ pCalls' = pCalls \ {c}
    /\ IF c.gen # pGen
         THEN UNCHANGED <<pProfile, pDevice, pLoading>>
         ELSE /\ pLoading' = FALSE
              /\ IF ~result.ok
                   THEN pProfile' = NoProfile /\ pDevice' = NoRegistration
                   ELSE /\ pProfile' = [owner |-> c.user, complete |-> result.complete]
                        /\ pDevice' = [owner |-> c.user, approved |-> result.approved]
    /\ UNCHANGED <<isFirebaseConfigured, authUser, authLoading, authPending, isMock,
                   demoAcknowledged, pGen, pDirty,
                   deviceVars, attendanceVars, teacherVars, hookVars, faceVars, scanVars, serviceVars>>

\* syncDevice from the onboarding screen, up to the await of fetchDeviceRegistration
SyncDevice ==
    /\ Screen = "onboarding" /\ ~pDirty /\ authUser # NONE
    /\ pCalls' = pCalls \cup {[kind |-> "sync", user |-> authUser, gen |-> pGen]}
    /\ UNCHANGED <<isFirebaseConfigured, authUser, authLoading, authPending, isMock,
                   demoAcknowledged, pLoading, pProfile, pDevice, pGen, pDirty,
                   deviceVars, attendanceVars, teacherVars, hookVars, faceVars, scanVars, serviceVars>>

\* fetchDeviceRegistration: a throw, null, or the stored registration
SyncResults ==
    {[outcome |-> "error", approved |-> FALSE], [outcome |-> "null", approved |-> FALSE]}
      \cup [outcome : {"found"}, approved : BOOLEAN]

\* syncDevice after its await: setDevice(updated)
SyncDone(c, result) ==
    /\ c \in pCalls /\ c.kind = "sync" /\ ~pDirty
    /\ pCalls' = pCalls \ {c}
    /\ pDevice' = IF result.outcome = "error" THEN pDevice
                  ELSE IF result.outcome = "null" THEN NoRegistration
                  ELSE [owner |-> c.user, approved |-> result.approved]
    /\ UNCHANGED <<isFirebaseConfigured, authUser, authLoading, authPending, isMock,
                   demoAcknowledged, pLoading, pProfile, pGen, pDirty,
                   deviceVars, attendanceVars, teacherVars, hookVars, faceVars, scanVars, serviceVars>>

\* refresh(), from onCompleted or at the end of saveDetails
ProfileRefresh ==
    /\ Screen = "onboarding" /\ ~pDirty
    /\ pDirty' = TRUE
    /\ UNCHANGED <<isFirebaseConfigured, authUser, authLoading, authPending, isMock,
                   demoAcknowledged, pLoading, pProfile, pDevice, pGen, pCalls,
                   deviceVars, attendanceVars, teacherVars, hookVars, faceVars, scanVars, serviceVars>>

StoreStart ==
    /\ DeviceStart /\ AttendanceStart /\ HooksStart /\ FaceStart
    /\ session = [hasLocation |-> TRUE, hasToken |-> TRUE, isMock |-> FALSE]
    /\ localSessions = {}
    /\ isDevice = [k \in DeviceKeys |-> TRUE]

InitGate ==
    /\ StoreStart
    /\ \E configured \in BOOLEAN : AppStart(configured)

NextGate ==
    \/ AuthInitUnconfigured
    \/ \E u \in Students \cup {NONE} : AuthStateChanged(u)
    \/ \E u \in Students : SignIn(u)
    \/ SignOut
    \/ \E ok \in BOOLEAN : AuthCallDone(ok)
    \/ AcknowledgeDemo
    \/ ProfileEffect
    \/ \E c \in pCalls, r \in LoadResults : LoadDone(c, r)
    \/ SyncDevice
    \/ \E c \in pCalls, r \in SyncResults : SyncDone(c, r)
    \/ ProfileRefresh

SpecGate == InitGate /\ [][NextGate]_vars

(***************************************************************************)
(* Check-in screen: scan, confirm, submit                                  *)
(***************************************************************************)

\* number of runs per scan value between two resets, and of runs in flight
MaxScans == 3

StoreFrame == <<deviceVars, attendanceVars, teacherVars, hookVars, faceVars, serviceVars>>

\* resetWorkflow's state updates
AfterReset ==
    /\ scanStep' = "scan"
    /\ lastScanned' = NONE
    /\ hasPending' = FALSE
    /\ isProcessing' = FALSE
    /\ scanStarts' = [v \in ScanValues |-> 0]
    /\ scanHandled' = {}

\* the early returns of handleBarcodeScanned
PassesScanGuards(value) ==
    /\ scanStep = "scan" /\ ~isProcessing
    /\ value # lastScanned

\* handleBarcodeScanned up to its first await
BarcodeScanned(value) ==
    /\ PassesScanGuards(value)
    /\ scanStarts[value] < MaxScans /\ BagCardinality(scanCalls) < MaxScans
    /\ isProcessing' = TRUE
    /\ scanCalls' = scanCalls (+) SetToBag({value})
    /\ scanStarts' = [scanStarts EXCEPT ![value] = @ + 1]
    /\ UNCHANGED <<scanStep, lastScanned, hasPending, submitCalls, scanHandled,
                   isFirebaseConfigured, gateVars, StoreFrame>>

\* handleBarcodeScanned after its awaits: the session and location are kept
\* and the step advances, or the catch sets the error; finally the latch opens
ScanDone(value, ok) ==
    /\ BagIn(value, scanCalls)
    /\ scanCalls' = scanCalls (-) SetToBag({value})
    /\ scanHandled' = scanHandled \cup {value}
    /\ isProcessing' = FALSE
    /\ IF ok
         THEN /\ hasPending' = TRUE
              /\ lastScanned' = value
              /\ scanStep' = "confirm"
         ELSE UNCHANGED <<hasPending, lastScanned, scanStep>>
    /\ UNCHANGED <<submitCalls, scanStarts, isFirebaseConfigured, gateVars, StoreFrame>>

\* resetWorkflow from the focus effect or the "scan again" button
ResetWorkflow ==
    /\ AfterReset
    /\ UNCHANGED <<scanCalls, submitCalls, isFirebaseConfigured, gateVars, StoreFrame>>

\* handleSubmitAttendance up to the await of recordAttendance
SubmitAttendance ==
    /\ hasPending /\ ~isProcessing
    /\ submitCalls < MaxScans
    /\ isProcessing' = TRUE
    /\ submitCalls' = submitCalls + 1
    /\ UNCHANGED <<scanStep, lastScanned, hasPending, scanCalls, scanStarts, scanHandled,
                   isFirebaseConfigured, gateVars, StoreFrame>>

\* handleSubmitAttendance after recordAttendance: resetWorkflow on success,
\* the error otherwise; finally the latch opens
SubmitDone(ok) ==
    /\ submitCalls > 0
    /\ submitCalls' = submitCalls - 1
    /\ IF ok THEN AfterReset
       ELSE /\ isProcessing' = FALSE
            /\ UNCHANGED <<scanStep, lastScanned, hasPending, scanStarts, scanHandled>>
    /\ UNCHANGED <<scanCalls, isFirebaseConfigured, gateVars, StoreFrame>>

InitScan == StoreStart /\ AppStart(TRUE)

NextScan ==
    \/ \E v \in ScanValues : BarcodeScanned(v)
    \/ \E v \in ScanValues, ok \in BOOLEAN : ScanDone(v, ok)
    \/ ResetWorkflow
    \/ SubmitAttendance
    \/ \E ok \in BOOLEAN : SubmitDone(ok)

SpecScan == InitScan /\ [][NextScan]_vars

(***************************************************************************)
(* Student profile bootstrap and onboarding saves (student-profile.ts)     *)
(***************************************************************************)

\* number of ensureStudentProfile calls one behaviour starts
MaxBootCalls == 2

\* the device fields of a profile written by the bootstrap: activeDeviceKey
\* null, deviceApprovalState 'pending', deviceApprovalReason null
BootDeviceFields ==
    [activeDeviceKey |-> NONE, deviceApprovalState |-> "pending", deviceApprovalReason |-> NONE]

\* a document without device fields reads as undefined in each of them
UndefinedDeviceFields ==
    [activeDeviceKey |-> NONE, deviceApprovalState |-> NONE, deviceApprovalReason |-> NONE]

\* ensureStudentProfile is called by onAuthStateChanged, by signIn and by
\* fetchStudentProfile when it finds no document
StartEnsureProfile(uid) ==
    /\ Len(bootCalls) < MaxBootCalls
    /\ bootCalls' = Append(bootCalls, [uid |-> uid, pc |-> "read", saw |-> NONE])
    /\ UNCHANGED <<deviceVars, attendanceVars, teacherVars, hookVars, faceVars,
                   restVars, profileDoc, trustWritten>>

\* getDoc(profileRef): snapshot.exists() and which fields are undefined
EnsureRead(i) ==
    LET c == bootCalls[i] IN
    /\ c.pc = "read"
    /\ bootCalls' = [bootCalls EXCEPT ![i] = [c EXCEPT !.pc = "write", !.saw = profileDoc[c.uid]]]
    /\ UNCHANGED <<deviceVars, attendanceVars, teacherVars, hookVars, faceVars,
                   restVars, profileDoc, trustWritten>>

\* the write chosen from what the read saw: setDoc of a whole new document when
\* none existed, else updateDoc, which carries the device fields only when
\* they were undefined in the snapshot
EnsureWrite(i) ==
    LET c == bootCalls[i] IN
    /\ c.pc = "write"
    /\ IF c.saw = "full"
         THEN UNCHANGED <<profiles, profileDoc>>
         ELSE /\ profiles' = [profiles EXCEPT ![c.uid] = BootDeviceFields]
              /\ profileDoc' = [profileDoc EXCEPT ![c.uid] = "full"]
    /\ bootCalls' = [bootCalls EXCEPT ![i].pc = "done"]
    /\ UNCHANGED <<deviceDirectory, devices, isDevice, regCalls, attendanceVars, teacherVars,
                   hookVars, faceVars, restVars, trustWritten>>

\* saveDetails: updateStudentProfile with the onboarding form's displayName,
\* studentNumber and email, a setDoc with merge that creates the document when
\* it is absent and names no device field
SaveDetails(uid) ==
    /\ profileDoc' = [profileDoc EXCEPT ![uid] = IF @ = "absent" THEN "bare" ELSE @]
    /\ UNCHANGED <<deviceVars, attendanceVars, teacherVars, hookVars, faceVars,
                   restVars, bootCalls, trustWritten>>

\* the student who signs in for the first time, and the phone they sign in on
BootStudent == "s1"
BootDeviceKey == "k1"

\* a first launch: no student has a profile document yet
InitBootstrap ==
    /\ AppStart(TRUE)
    /\ AttendanceStart /\ HooksStart /\ FaceStart
    /\ session = [hasLocation |-> TRUE, hasToken |-> TRUE, isMock |-> FALSE]
    /\ localSessions = {}
    /\ isDevice = [k \in DeviceKeys |-> TRUE]
    /\ deviceDirectory = [k \in DeviceKeys |-> NONE]
    /\ devices = [s \in Students |-> [k \in DeviceKeys |->
            [approvalState |-> NONE, approvalReason |-> NONE]]]
    /\ profiles = [s \in Students |-> UndefinedDeviceFields]
    /\ profileDoc = [s \in Students |-> "absent"]
    /\ regCalls = <<>>
    /\ bootCalls = <<>>
    /\ trustWritten = {}

NextBootstrap ==
    \/ StartEnsureProfile(BootStudent)
    \/ \E i \in 1..Len(bootCalls) : EnsureRead(i)
    \/ \E i \in 1..Len(bootCalls) : EnsureWrite(i)
    \/ SaveDetails(BootStudent)
    \/ StartRegistration(BootStudent, BootDeviceKey)
    \/ \E i \in 1..Len(regCalls), o \in TxnOutcomes : DirectoryTransaction(i, o)
    \/ \E i \in 1..Len(regCalls) : ReadProfile(i)
    \/ \E i \in 1..Len(regCalls) : ReadDevice(i)
    \/ \E i \in 1..Len(regCalls) : SetDeviceDoc(i)
    \/ \E i \in 1..Len(regCalls) : UpdateProfileDoc(i)

SpecBootstrap == InitBootstrap /\ [][NextBootstrap]_vars

(***************************************************************************)
(* Device key storage: getOrCreateDeviceKey                                *)
(***************************************************************************)

\* number of getOrCreateDeviceKey calls one behaviour starts
MaxKeyCalls == 3

\* a key left by an earlier version of the app, distinct from every generated key
InstalledKey == MaxKeyCalls + 1

KeyFrame == <<deviceVars, attendanceVars, teacherVars, hookVars, faceVars, tailVars,
              isFirebaseConfigured, gateVars, scanVars, bootVars, taskVars, opVars, mockVars, qrVars, proxVars>>

\* the key readStoredDeviceKey finds when every read succeeds
StoredKey ==
    IF secureStoreAvailable /\ keyStore.secure # NoKey THEN keyStore.secure
    ELSE IF keyStore.plain # NoKey THEN keyStore.plain
    ELSE keyStore.legacy

\* readStoredDeviceKey returned null: generateDeviceKey, then storeDeviceKey
Generate(c) ==
    [c EXCEPT !.pc = IF secureStoreAvailable THEN "storeSecure" ELSE "storePlain",
              !.key = keyClock + 1, !.generated = TRUE]

\* readStoredDeviceKey returned a key
Found(c, key) == [c EXCEPT !.pc = "done", !.key = key]

\* ensureDeviceRegistration, fetchDeviceRegistration and getDeviceKey start a call
StartKeyCall ==
    /\ Len(keyCalls) < MaxKeyCalls
    /\ keyCalls' = Append(keyCalls,
            [pc |-> IF secureStoreAvailable THEN "readSecure" ELSE "readPlain",
             key |-> NoKey, generated |-> FALSE, storedAtStart |-> StoredKey])
    /\ UNCHANGED <<keyStore, secureStoreAvailable, keyClock, KeyFrame>>

\* SecureStore.getItemAsync: a value is returned, anything else falls through
ReadSecure(i, ok) ==
    LET c == keyCalls[i] IN
    /\ c.pc = "readSecure"
    /\ keyCalls' = [keyCalls EXCEPT ![i] =
            IF ok /\ keyStore.secure # NoKey THEN Found(c, keyStore.secure)
            ELSE [c EXCEPT !.pc = "readPlain"]]
    /\ UNCHANGED <<keyStore, secureStoreAvailable, keyClock, KeyFrame>>

\* AsyncStorage.getItem(DEVICE_KEY_ASYNC_STORAGE); a rejection ends the read with null
ReadPlain(i, ok) ==
    LET c == keyCalls[i] IN
    /\ c.pc = "readPlain"
    /\ IF ~ok
         THEN /\ keyCalls' = [keyCalls EXCEPT ![i] = Generate(c)]
              /\ keyClock' = keyClock + 1
         ELSE /\ keyCalls' = [keyCalls EXCEPT ![i] =
                    IF keyStore.plain # NoKey THEN Found(c, keyStore.plain)
                    ELSE [c EXCEPT !.pc = "readLegacy"]]
              /\ UNCHANGED keyClock
    /\ UNCHANGED <<keyStore, secureStoreAvailable, KeyFrame>>

\* AsyncStorage.getItem(LEGACY_DEVICE_KEY_ASYNC_STORAGE)
ReadLegacy(i, ok) ==
    LET c == keyCalls[i] IN
    /\ c.pc = "readLegacy"
    /\ IF ok /\ keyStore.legacy # NoKey
         THEN /\ keyCalls' = [keyCalls EXCEPT ![i] =
                    [c EXCEPT !.pc = "migrate", !.key = keyStore.legacy]]
              /\ UNCHANGED keyClock
         ELSE /\ keyCalls' = [keyCalls EXCEPT ![i] = Generate(c)]
              /\ keyClock' = keyClock + 1
    /\ UNCHANGED <<keyStore, secureStoreAvailable, KeyFrame>>

\* AsyncStorage.setItem(DEVICE_KEY_ASYNC_STORAGE, legacy); a rejection is caught
\* by the outer handler and the read ends with null
MigrateLegacy(i, ok) ==
    LET c == keyCalls[i] IN
    /\ c.pc = "migrate"
    /\ IF ok
         THEN /\ keyStore' = [keyStore EXCEPT !.plain = c.key]
              /\ keyCalls' = [keyCalls EXCEPT ![i].pc = "removeMigrated"]
              /\ UNCHANGED keyClock
         ELSE /\ keyCalls' = [keyCalls EXCEPT ![i] = Generate(c)]
              /\ keyClock' = keyClock + 1
              /\ UNCHANGED keyStore
    /\ UNCHANGED <<secureStoreAvailable, KeyFrame>>

\* AsyncStorage.removeItem of the legacy entry after the migration, then return legacy
RemoveMigrated(i, ok) ==
    LET c == keyCalls[i] IN
    /\ c.pc = "removeMigrated"
    /\ keyStore' = IF ok THEN [keyStore EXCEPT !.legacy = NoKey] ELSE keyStore
    /\ keyCalls' = [keyCalls EXCEPT ![i].pc = "done"]
    /\ UNCHANGED <<secureStoreAvailable, keyClock, KeyFrame>>

\* storeDeviceKey: SecureStore.setItemAsync
StoreSecure(i, ok) ==
    LET c == keyCalls[i] IN
    /\ c.pc = "storeSecure"
    /\ keyStore' = IF ok THEN [keyStore EXCEPT !.secure = c.key] ELSE keyStore
    /\ keyCalls' = [keyCalls EXCEPT ![i].pc = "storePlain"]
    /\ UNCHANGED <<secureStoreAvailable, keyClock, KeyFrame>>

\* storeDeviceKey: AsyncStorage.setItem
StorePlain(i, ok) ==
    LET c == keyCalls[i] IN
    /\ c.pc = "storePlain"
    /\ keyStore' = IF ok THEN [keyStore EXCEPT !.plain = c.key] ELSE keyStore
    /\ keyCalls' = [keyCalls EXCEPT ![i].pc = "dropLegacy"]
    /\ UNCHANGED <<secureStoreAvailable, keyClock, KeyFrame>>

\* storeDeviceKey: AsyncStorage.removeItem of the legacy entry, then return nextKey
DropLegacy(i, ok) ==
    LET c == keyCalls[i] IN
    /\ c.pc = "dropLegacy"
    /\ keyStore' = IF ok THEN [keyStore EXCEPT !.legacy = NoKey] ELSE keyStore
    /\ keyCalls' = [keyCalls EXCEPT ![i].pc = "done"]
    /\ UNCHANGED <<secureStoreAvailable, keyClock, KeyFrame>>

\* a phone with or without secure storage, fresh or upgraded from a version
\* that kept its key under the legacy name
InitKey ==
    /\ ShellStart(TRUE) /\ StoreStart /\ TaskStart /\ OpStart /\ MockStart
    /\ QrStart /\ ProxStart /\ TailStart
    /\ secureStoreAvailable \in BOOLEAN
    /\ \E legacy \in {NoKey, InstalledKey} :
          keyStore = [secure |-> NoKey, plain |-> NoKey, legacy |-> legacy]
    /\ keyCalls = <<>>
    /\ keyClock = 0

NextKey ==
    \/ StartKeyCall
    \/ \E i \in 1..Len(keyCalls), ok \in BOOLEAN : ReadSecure(i, ok)
    \/ \E i \in 1..Len(keyCalls), ok \in BOOLEAN : ReadPlain(i, ok)
    \/ \E i \in 1..Len(keyCalls), ok \in BOOLEAN : ReadLegacy(i, ok)
    \/ \E i \in 1..Len(keyCalls), ok \in BOOLEAN : MigrateLegacy(i, ok)
    \/ \E i \in 1..Len(keyCalls), ok \in BOOLEAN : RemoveMigrated(i, ok)
    \/ \E i \in 1..Len(keyCalls), ok \in BOOLEAN : StoreSecure(i, ok)
    \/ \E i \in 1..Len(keyCalls), ok \in BOOLEAN : StorePlain(i, ok)
    \/ \E i \in 1..Len(keyCalls), ok \in BOOLEAN : DropLegacy(i, ok)

SpecKey == InitKey /\ [][NextKey]_vars

(***************************************************************************)
(* Free-period tasks: fetchFreePeriodTasks and useFreePeriodTasks          *)
(***************************************************************************)

\* the delay of setTimeout(() => controller?.abort(), 8000), in seconds
TIMEOUT_SECONDS == 8

\* number of fetchFreePeriodTasks calls one behaviour starts
MaxTaskCalls == 2

\* seconds a call is followed after it was issued
MaxAge == 10

TaskFrame == <<deviceVars, attendanceVars, teacherVars, hookVars, faceVars, tailVars,
               isFirebaseConfigured, gateVars, scanVars, bootVars, keyVars, opVars, mockVars, qrVars, proxVars>>

\* a call that has sent its request: the signal handed to fetch is the
\* caller's when there is one, else the one of the call's own controller
NewTaskReq(viaHook) ==
    [ viaHook |-> viaHook,
      signal |-> IF viaHook THEN "caller" ELSE "own",
      pc |-> IF hasEndpoint THEN "fetch" ELSE "done",
      sent |-> hasEndpoint,
      timer |-> hasEndpoint,
      age |-> 0,
      isFallback |-> ~hasEndpoint,
      timedOut |-> FALSE ]

\* fetch rejects with AbortError: the catch returns the fallback, finally clears the timer
Aborted(r) == [r EXCEPT !.pc = "done", !.isFallback = TRUE, !.timer = FALSE]

\* abortRef.current?.abort()
AbortCurrent(reqs) ==
    [i \in 1..Len(reqs) |->
        IF i = abortRef /\ reqs[i].pc = "fetch" THEN Aborted(reqs[i]) ELSE reqs[i]]

\* fetchFreePeriodTasks called without a signal
FetchDirect ==
    /\ Len(taskReqs) < MaxTaskCalls
    /\ taskReqs' = Append(taskReqs, NewTaskReq(FALSE))
    /\ UNCHANGED <<hasEndpoint, abortRef, ideasFallback, TaskFrame>>

\* the hook's load(): abort the previous controller, keep the new one, call the service
HookLoad ==
    /\ Len(taskReqs) < MaxTaskCalls
    /\ taskReqs' = Append(AbortCurrent(taskReqs), NewTaskReq(TRUE))
    /\ abortRef' = Len(taskReqs) + 1
    /\ ideasFallback' = IF AbortCurrent(taskReqs) # taskReqs \/ ~hasEndpoint
                            THEN TRUE ELSE ideasFallback
    /\ UNCHANGED <<hasEndpoint, TaskFrame>>

\* the effect's cleanup: abortRef.current?.abort()
HookCleanup ==
    /\ abortRef # 0
    /\ taskReqs[abortRef].pc = "fetch"
    /\ taskReqs' = AbortCurrent(taskReqs)
    /\ ideasFallback' = TRUE
    /\ UNCHANGED <<hasEndpoint, abortRef, TaskFrame>>

\* a second passes; a timer that is due fires before the clock moves on
Tick ==
    /\ \E i \in 1..Len(taskReqs) : taskReqs[i].pc = "fetch"
    /\ \A i \in 1..Len(taskReqs) :
          /\ taskReqs[i].pc = "fetch" => taskReqs[i].age < MaxAge
          /\ taskReqs[i].timer => taskReqs[i].age < TIMEOUT_SECONDS
    /\ taskReqs' = [i \in 1..Len(taskReqs) |->
            IF taskReqs[i].pc = "fetch" THEN [taskReqs[i] EXCEPT !.age = @ + 1] ELSE taskReqs[i]]
    /\ UNCHANGED <<hasEndpoint, abortRef, ideasFallback, TaskFrame>>

\* the timeout callback: controller?.abort() on the call's own controller
TimerFires(i) ==
    LET r == taskReqs[i] IN
    /\ r.timer /\ r.age = TIMEOUT_SECONDS
    /\ taskReqs' = [taskReqs EXCEPT ![i] =
            IF r.signal = "own" THEN [Aborted(r) EXCEPT !.timedOut = TRUE]
            ELSE [r EXCEPT !.timer = FALSE, !.timedOut = TRUE]]
    /\ ideasFallback' = IF r.viaHook /\ r.signal = "own" THEN TRUE ELSE ideasFallback
    /\ UNCHANGED <<hasEndpoint, abortRef, TaskFrame>>

\* the response arrives: tasks, or anything that makes the call fall back
Respond(i, fallback) ==
    LET r == taskReqs[i] IN
    /\ r.pc = "fetch"
    /\ taskReqs' = [taskReqs EXCEPT ![i] =
            [r EXCEPT !.pc = "done", !.isFallback = fallback, !.timer = FALSE]]
    /\ ideasFallback' = IF r.viaHook THEN fallback ELSE ideasFallback
    /\ UNCHANGED <<hasEndpoint, abortRef, TaskFrame>>

InitTask ==
    /\ ShellStart(TRUE) /\ StoreStart /\ KeyStart /\ OpStart /\ MockStart
    /\ QrStart /\ ProxStart /\ TailStart
    /\ hasEndpoint \in BOOLEAN
    /\ taskReqs = <<>>
    /\ abortRef = 0
    /\ ideasFallback = FALSE

NextTask ==
    \/ FetchDirect
    \/ HookLoad
    \/ HookCleanup
    \/ Tick
    \/ \E i \in 1..Len(taskReqs) : TimerFires(i)
    \/ \E i \in 1..Len(taskReqs), fallback \in BOOLEAN : Respond(i, fallback)

SpecTask == InitTask /\ [][NextTask]_vars

(***************************************************************************)
(* Service entry points with and without a configured backend              *)
(***************************************************************************)

\* number of service operations one behaviour calls
MaxOpCalls == 3

\* number of subscriptions one behaviour makes, and of snapshots one listener gets
MaxSubs == 2

OpFrame == <<deviceVars, attendanceVars, teacherVars, hookVars, faceVars, tailVars,
             gateVars, scanVars, bootVars, keyVars, taskVars, mockVars, qrVars, proxVars>>

ServiceOps == {"ensureStudentProfile", "fetchStudentProfile", "updateStudentProfile",
               "ensureDeviceRegistration", "fetchDeviceRegistration",
               "resolveSessionFromPayload", "recordAttendance",
               "toggleTaskStatus", "seedTaskIfMissing"}

SubscriptionKinds == {"tasks", "history"}

\* the users AuthProvider can hold: a mock student without a backend, a
\* Firebase user with one, or nobody
MOCK_USER == "mock"
FIREBASE_USER == "firebase"
UsersFor(configured) == IF configured THEN {NONE, FIREBASE_USER} ELSE {NONE, MOCK_USER}

isMockStudent(user) == user = MOCK_USER

\* guards in which resolveSessionFromPayload goes to the store whatever the configuration
ReachesStore_ResolveUnguarded(op, configured, user, sessionIsMock, gateOk) ==
    IF op = "ensureStudentProfile"
        THEN ~(user = NONE \/ isMockStudent(user) \/ ~configured)
    ELSE IF op \in {"fetchStudentProfile", "updateStudentProfile",
                    "ensureDeviceRegistration", "fetchDeviceRegistration"}
        THEN user # NONE /\ ~(isMockStudent(user) \/ ~configured)
    ELSE IF op = "resolveSessionFromPayload"
        THEN TRUE
    ELSE IF op = "recordAttendance"
        THEN gateOk /\ ~(~configured \/ sessionIsMock \/ isMockStudent(user))
    ELSE IF op = "toggleTaskStatus"
        THEN ~(~configured \/ isMockStudent(user))
    ELSE configured

\* the operation gets past its early returns to getFirestoreDb()
ReachesStore(op, configured, user, sessionIsMock, gateOk) ==
    IF op = "ensureStudentProfile"
        THEN ~(user = NONE \/ isMockStudent(user) \/ ~configured)
    ELSE IF op \in {"fetchStudentProfile", "updateStudentProfile",
                    "ensureDeviceRegistration", "fetchDeviceRegistration"}
        THEN user # NONE /\ ~(isMockStudent(user) \/ ~configured)
    ELSE IF op = "resolveSessionFromPayload"
        THEN configured
    ELSE IF op = "recordAttendance"
        THEN gateOk /\ ~(~configured \/ sessionIsMock \/ isMockStudent(user))
    ELSE IF op = "toggleTaskStatus"
        THEN ~(~configured \/ isMockStudent(user))
    ELSE configured

\* one call of a service operation
ServiceCall(op, user, sessionIsMock, gateOk) ==
    /\ opCalls < MaxOpCalls
    /\ opCalls' = opCalls + 1
    /\ storeOps' = IF ReachesStore(op, isFirebaseConfigured, user, sessionIsMock, gateOk)
                       THEN storeOps + 1 ELSE storeOps
    /\ UNCHANGED <<isFirebaseConfigured, subs, OpFrame>>

\* subscribeToStudentTasks and the effect of useAttendanceHistory: the empty
\* list without a student, the mock list without a backend, else a listener
Subscribe(kind, user) ==
    /\ Len(subs) < MaxSubs
    /\ IF user = NONE
         THEN /\ subs' = Append(subs, [kind |-> kind, user |-> user,
                                       delivered |-> <<"empty">>, listening |-> FALSE])
              /\ UNCHANGED storeOps
         ELSE IF ~isFirebaseConfigured
         THEN /\ subs' = Append(subs, [kind |-> kind, user |-> user,
                                       delivered |-> <<"mock">>, listening |-> FALSE])
              /\ UNCHANGED storeOps
         ELSE /\ subs' = Append(subs, [kind |-> kind, user |-> user,
                                       delivered |-> <<>>, listening |-> TRUE])
              /\ storeOps' = storeOps + 1
    /\ UNCHANGED <<isFirebaseConfigured, opCalls, OpFrame>>

\* the listener's snapshot callback: onTasks / setRecords with the store's data
SnapshotArrives(i) ==
    /\ subs[i].listening
    /\ Len(subs[i].delivered) < MaxSubs
    /\ subs' = [subs EXCEPT ![i].delivered = Append(@, "snapshot")]
    /\ UNCHANGED <<isFirebaseConfigured, storeOps, opCalls, OpFrame>>

\* the function returned by the subscription is called
Unsubscribe(i) ==
    /\ subs[i].listening
    /\ subs' = [subs EXCEPT ![i].listening = FALSE]
    /\ UNCHANGED <<isFirebaseConfigured, storeOps, opCalls, OpFrame>>

InitOps ==
    /\ \E configured \in BOOLEAN : ShellStart(configured)
    /\ StoreStart /\ KeyStart /\ TaskStart /\ MockStart /\ QrStart /\ ProxStart /\ TailStart
    /\ storeOps = 0
    /\ opCalls = 0
    /\ subs = <<>>

NextOps ==
    \/ \E op \in ServiceOps, user \in UsersFor(isFirebaseConfigured),
          sessionIsMock \in BOOLEAN, gateOk \in BOOLEAN :
              ServiceCall(op, user, sessionIsMock, gateOk)
    \/ \E kind \in SubscriptionKinds, user \in UsersFor(isFirebaseConfigured) :
              Subscribe(kind, user)
    \/ \E i \in 1..Len(subs) : SnapshotArrives(i)
    \/ \E i \in 1..Len(subs) : Unsubscribe(i)

SpecOps == InitOps /\ [][NextOps]_vars

(***************************************************************************)
(* Demo mode: the mock device record and the mock profile                  *)
(***************************************************************************)

\* number of demo-path service calls one behaviour starts
MaxMockCalls == 3

MockFrame == <<deviceVars, attendanceVars, teacherVars, hookVars, faceVars, tailVars,
               isFirebaseConfigured, gateVars, scanVars, bootVars, keyVars, taskVars, opVars, qrVars, proxVars>>

MockOps == {"ensureDeviceRegistration", "fetchDeviceRegistration",
            "fetchStudentProfile", "updateStudentProfile"}

\* the record loadMockDeviceRecord builds when nothing usable is stored
MockDeviceFallback == IF mockIsPhysical THEN "approved" ELSE "blocked"

\* the deviceApprovalState of loadMockProfile's fallback profile
MockProfileFallback == "approved"

\* a service is called for a mock student, or for any user without a backend
StartMockCall(op, uid) ==
    /\ mockStarted < MaxMockCalls
    /\ mockStarted' = mockStarted + 1
    /\ mockCalls' = mockCalls \cup {[id |-> mockStarted + 1, op |-> op, uid |-> uid,
                                     pc |-> "load", record |-> NONE]}
    /\ UNCHANGED <<mockIsPhysical, mockDevices, mockProfiles, MockFrame>>

\* loadMockDeviceRecord up to its return or its save: AsyncStorage.getItem and
\* JSON.parse, whose failure is caught and leads to the fallback
LoadMockDevice(c, readOk) ==
    /\ c.op \in {"ensureDeviceRegistration", "fetchDeviceRegistration"} /\ c.pc = "load"
    /\ LET found == readOk /\ mockDevices[c.uid] # NONE
           record == IF found THEN mockDevices[c.uid] ELSE MockDeviceFallback
           next == IF found THEN (IF c.op = "ensureDeviceRegistration" THEN "save" ELSE "done")
                   ELSE IF c.op = "ensureDeviceRegistration" THEN "create" ELSE "done" IN
       mockCalls' = (mockCalls \ {c}) \cup
            (IF next = "done" THEN {} ELSE {[c EXCEPT !.pc = next, !.record = record]})
    /\ UNCHANGED <<mockIsPhysical, mockDevices, mockProfiles, mockStarted, MockFrame>>

\* saveMockDeviceRecord: by loadMockDeviceRecord for a missing record, then by
\* ensureDeviceRegistration for the record it got; a rejected write is ignored
SaveMockDevice(c, writeOk) ==
    /\ c.op = "ensureDeviceRegistration" /\ c.pc \in {"create", "save"}
    /\ mockDevices' = IF writeOk THEN [mockDevices EXCEPT ![c.uid] = c.record] ELSE mockDevices
    /\ mockCalls' = (mockCalls \ {c}) \cup
            (IF c.pc = "create" THEN {[c EXCEPT !.pc = "save"]} ELSE {})
    /\ UNCHANGED <<mockIsPhysical, mockProfiles, mockStarted, MockFrame>>

\* loadMockProfile: the stored profile, or the fallback that is saved next;
\* a rejected read rejects the call
LoadMockProfile(c, readOk) ==
    /\ c.op \in {"fetchStudentProfile", "updateStudentProfile"} /\ c.pc = "load"
    /\ LET found == mockProfiles[c.uid] # NONE
           record == IF found THEN mockProfiles[c.uid] ELSE MockProfileFallback
           next == IF ~readOk THEN "done"
                   ELSE IF ~found THEN "create"
                   ELSE IF c.op = "updateStudentProfile" THEN "save" ELSE "done" IN
       mockCalls' = (mockCalls \ {c}) \cup
            (IF next = "done" THEN {} ELSE {[c EXCEPT !.pc = next, !.record = record]})
    /\ UNCHANGED <<mockIsPhysical, mockDevices, mockProfiles, mockStarted, MockFrame>>

\* saveMockProfile: of the fallback, then of the profile merged with the
\* onboarding form's displayName, studentNumber and email; a rejected write
\* rejects the call
SaveMockProfile(c, writeOk) ==
    /\ c.op \in {"fetchStudentProfile", "updateStudentProfile"} /\ c.pc \in {"create", "save"}
    /\ mockProfiles' = IF writeOk THEN [mockProfiles EXCEPT ![c.uid] = c.record] ELSE mockProfiles
    /\ mockCalls' = (mockCalls \ {c}) \cup
            (IF writeOk /\ c.pc = "create" /\ c.op = "updateStudentProfile"
                THEN {[c EXCEPT !.pc = "save"]} ELSE {})
    /\ UNCHANGED <<mockIsPhysical, mockDevices, mockStarted, MockFrame>>

\* a phone or an emulator on which the demo has never run
InitMock ==
    /\ ShellStart(FALSE) /\ StoreStart /\ KeyStart /\ TaskStart /\ OpStart
    /\ QrStart /\ ProxStart /\ TailStart
    /\ mockIsPhysical \in BOOLEAN
    /\ mockDevices = [s \in Students |-> NONE]
    /\ mockProfiles = [s \in Students |-> NONE]
    /\ mockCalls = {}
    /\ mockStarted = 0

NextMock ==
    \/ \E op \in MockOps, uid \in Students : StartMockCall(op, uid)
    \/ \E c \in mockCalls, ok \in BOOLEAN : LoadMockDevice(c, ok)
    \/ \E c \in mockCalls, ok \in BOOLEAN : SaveMockDevice(c, ok)
    \/ \E c \in mockCalls, ok \in BOOLEAN : LoadMockProfile(c, ok)
    \/ \E c \in mockCalls, ok \in BOOLEAN : SaveMockProfile(c, ok)

SpecMock == InitMock /\ [][NextMock]_vars

(***************************************************************************)
(* Session QR code: SessionCreator's handleSubmit and parseQrPayload       *)
(***************************************************************************)

QrFrame == <<deviceVars, attendanceVars, teacherVars, hookVars, faceVars, tailVars,
             isFirebaseConfigured, gateVars, scanVars, bootVars, keyVars, taskVars, opVars,
             mockVars, proxVars>>

\* slice(2, 10) keeps at most eight characters of Math.random().toString(36)
SEGMENT_LENGTH == 8

\* z.string().min(8) for sessionToken
MIN_TOKEN_LENGTH == 8

\* the lengths a segment is drawn with: Math.random() with no, a short or a
\* long base-36 fraction
SegmentLengths == {0, 3, SEGMENT_LENGTH}

\* n characters other than the dash
Segment(n) == [i \in 1..n |-> "x"]

\* crypto.randomUUID(): 8-4-4-4-12
RandomUUID ==
    Segment(8) \o <<"-">> \o Segment(4) \o <<"-">> \o Segment(4) \o <<"-">>
        \o Segment(4) \o <<"-">> \o Segment(12)

\* the id Firestore gives a new document reference
FirestoreAutoId == Segment(20)

\* generateSecureId: a UUID, or two random segments joined by a dash
generateSecureId(hasCrypto, n1, n2) ==
    IF hasCrypto THEN RandomUUID ELSE Segment(n1) \o <<"-">> \o Segment(n2)

\* .replace(/-/g, '')
StripDashes(str) == SelectSeq(str, LAMBDA c : c # "-")

\* JSON.stringify of a string: a quote or a backslash gets a backslash in front
RECURSIVE Escape(_)
Escape(str) ==
    IF str = <<>> THEN <<>>
    ELSE IF Head(str) \in {"\"", "\\"} THEN <<"\\", Head(str)>> \o Escape(Tail(str))
    ELSE <<Head(str)>> \o Escape(Tail(str))

\* JSON.parse of a string: the character after a backslash is taken as it is
RECURSIVE Unescape(_)
Unescape(chars) ==
    IF chars = <<>> THEN <<>>
    ELSE IF Head(chars) = "\\" /\ Len(chars) >= 2
        THEN <<chars[2]>> \o Unescape(Tail(Tail(chars)))
    ELSE <<Head(chars)>> \o Unescape(Tail(chars))

\* a member of the JSON text: a string, a number, or null for a number that is not finite
JsonString(str) == [t |-> "string", chars |-> Escape(str), num |-> 0]
JsonNumber(n) ==
    IF isFinite(n) THEN [t |-> "number", chars |-> <<>>, num |-> n]
    ELSE [t |-> "null", chars |-> <<>>, num |-> 0]

\* what the form lets through: className and subject are required, the
\* duration is between 10 and 180 in steps of 5
ClassNames == {<<"m", "1">>, <<"\"", "m", "\\">>}
Durations == {10, 45, 180}
Latitudes == {-33, 48}
Longitudes == {-70, 2}
Accuracies == {0, 12}

\* JSON.stringify({sessionId, sessionToken, className, subject, scheduledFor,
\* teacherId, durationMinutes, locationCoordinates: coordinates})
QrText(sessionId, sessionToken, className, duration, signedIn, lat, lon, acc) ==
    [ sessionId |-> JsonString(sessionId),
      sessionToken |-> JsonString(sessionToken),
      className |-> JsonString(className),
      subject |-> JsonString(<<"s">>),
      scheduledFor |-> JsonString(<<"2", "0", "2", "6">>),
      teacherId |-> JsonString(IF signedIn THEN <<"t", "1">> ELSE <<"d", "e", "m", "o">>),
      durationMinutes |-> JsonNumber(duration),
      latitude |-> JsonNumber(lat),
      longitude |-> JsonNumber(lon),
      accuracy |-> JsonNumber(acc),
      capturedAt |-> JsonString(<<"2", "0", "2", "6">>) ]

\* z.string().min(n)
IsString(v, n) == v.t = "string" /\ Len(Unescape(v.chars)) >= n

\* z.number()
IsNumber(v) == v.t = "number"

\* qrPayloadSchema.safeParse(parsed).success
qrPayloadSchema(d) ==
    /\ IsString(d.sessionId, 1)
    /\ IsString(d.sessionToken, MIN_TOKEN_LENGTH)
    /\ IsString(d.teacherId, 1)
    /\ IsString(d.className, 1)
    /\ IsString(d.subject, 1)
    /\ IsString(d.scheduledFor, 1)
    /\ IsNumber(d.durationMinutes) /\ d.durationMinutes.num > 0
    /\ IsNumber(d.latitude)
    /\ IsNumber(d.longitude)
    /\ IsNumber(d.accuracy)

\* parseQrPayload: the schema's data, or an error
parseQrPayload(d) ==
    IF qrPayloadSchema(d)
        THEN [status |-> "accepted",
              sessionId |-> Unescape(d.sessionId.chars),
              sessionToken |-> Unescape(d.sessionToken.chars),
              latitude |-> d.latitude.num, longitude |-> d.longitude.num,
              accuracy |-> d.accuracy.num]
        ELSE [NoScan EXCEPT !.status = "rejected"]

\* handleSubmit with a captured location: the ids, then the QR text
SubmitSession(className, duration, signedIn, hasCrypto, n1, n2, n3, n4, lat, lon, acc) ==
    /\ ~qrCreated.made
    /\ LET sessionId == IF signedIn THEN FirestoreAutoId ELSE generateSecureId(hasCrypto, n1, n2)
           sessionToken == StripDashes(generateSecureId(hasCrypto, n3, n4)) IN
       /\ qrCreated' = [made |-> TRUE, sessionId |-> sessionId, sessionToken |-> sessionToken,
                        latitude |-> lat, longitude |-> lon, accuracy |-> acc]
       /\ qrData' = QrText(sessionId, sessionToken, className, duration, signedIn, lat, lon, acc)
    /\ UNCHANGED <<qrScan, QrFrame>>

\* a student's camera reads the code: handleBarcodeScanned calls parseQrPayload
ScanQr ==
    /\ qrCreated.made /\ qrScan.status = NONE
    /\ qrScan' = parseQrPayload(qrData)
    /\ UNCHANGED <<qrCreated, qrData, QrFrame>>

InitQr ==
    /\ ShellStart(TRUE) /\ StoreStart /\ KeyStart /\ TaskStart /\ OpStart /\ MockStart
    /\ ProxStart /\ TailStart
    /\ qrCreated = NoSession
    /\ qrData = <<>>
    /\ qrScan = NoScan

NextQr ==
    \/ \E className \in ClassNames, duration \in Durations, signedIn \in BOOLEAN,
          hasCrypto \in BOOLEAN, n1 \in SegmentLengths, n2 \in SegmentLengths,
          n3 \in SegmentLengths, n4 \in SegmentLengths,
          lat \in Latitudes, lon \in Longitudes, acc \in Accuracies :
              SubmitSession(className, duration, signedIn, hasCrypto, n1, n2, n3, n4, lat, lon, acc)
    \/ ScanQr

SpecQr == InitQr /\ [][NextQr]_vars

(***************************************************************************)
(* computeProximity over reported accuracies                               *)
(***************************************************************************)

\* the largest haversine result and the largest reported accuracy, in metres
MaxDistance == 6
MaxAccuracy == 4

ProxFrame == <<deviceVars, attendanceVars, teacherVars, hookVars, faceVars, tailVars,
               isFirebaseConfigured, gateVars, scanVars, bootVars, keyVars, taskVars, opVars,
               mockVars, qrVars>>

\* an accuracy as the location APIs hand it over: absent or null, or a number
\* (a negative one included)
ReportedAccuracies == {<<>>} \cup {<<n>> : n \in -1..MaxAccuracy}

\* the student's position is measured again with a larger accuracy radius
RaiseStudentAccuracy(n) ==
    /\ proxLoc.accuracy # <<>> /\ n > proxLoc.accuracy[1]
    /\ proxLoc' = [proxLoc EXCEPT !.accuracy = <<n>>]
    /\ proxPrev' = proxOut
    /\ proxOut' = computeProximity(proxLoc')
    /\ UNCHANGED ProxFrame

\* the session's capture reports a larger accuracy radius
RaiseTargetAccuracy(n) ==
    /\ proxLoc.targetAccuracy # <<>> /\ n > proxLoc.targetAccuracy[1]
    /\ proxLoc' = [proxLoc EXCEPT !.targetAccuracy = <<n>>]
    /\ proxPrev' = proxOut
    /\ proxOut' = computeProximity(proxLoc')
    /\ UNCHANGED ProxFrame

\* a student position and a session position: rawDistance is the haversine
\* result for them, a rounded length between 0 and half the earth's girth
InitProx ==
    /\ ShellStart(TRUE) /\ StoreStart /\ KeyStart /\ TaskStart /\ OpStart /\ MockStart
    /\ QrStart /\ TailStart
    /\ proxLoc \in [hasTarget : {TRUE}, rawDistance : 0..MaxDistance,
                    accuracy : ReportedAccuracies, targetAccuracy : ReportedAccuracies]
    /\ proxOut = computeProximity(proxLoc)
    /\ proxPrev = proxOut

NextProx ==
    \/ \E n \in 0..MaxAccuracy : RaiseStudentAccuracy(n)
    \/ \E n \in 0..MaxAccuracy : RaiseTargetAccuracy(n)

SpecProx == InitProx /\ [][NextProx]_vars

(***************************************************************************)
(* The transactional merge of recordAttendance, attempt by attempt         *)
(***************************************************************************)

\* number of merges one behaviour starts, and the attempts runTransaction
\* makes before it rejects with aborted
MaxMergeCalls == 3
MaxAttempts == 2

\* everything the sections above this one work on
headVars == <<deviceVars, attendanceVars, teacherVars, hookVars, faceVars,
              isFirebaseConfigured, gateVars, scanVars, bootVars,
              keyVars, taskVars, opVars, mockVars, qrVars, proxVars>>

HeadStart(configured) ==
    /\ ShellStart(configured) /\ StoreStart
    /\ KeyStart /\ TaskStart /\ OpStart /\ MockStart /\ QrStart /\ ProxStart

MergeFrame == <<headVars, createVars, dashVars, bucketVars>>

\* a commit that does not compare the version it read
Conflicts_Never(c) == FALSE

\* the store rejects a commit whose snapshot is no longer the document
Conflicts(c) == txnDoc.version # c.readVersion

\* recordAttendance reaches runTransaction for student uid
StartMerge(uid) ==
    /\ Len(txnCalls) < MaxMergeCalls
    /\ txnCalls' = Append(txnCalls,
          [uid |-> uid, status |-> "present", pc |-> "get", attempts |-> 0,
           readVersion |-> 0, readAttendees |-> <<>>, committed |-> FALSE, error |-> NONE])
    /\ UNCHANGED <<txnDoc, MergeFrame>>

\* transaction.get(session.sessionRef) and the body up to transaction.update
TxnGet(i) ==
    LET c == txnCalls[i] IN
    /\ c.pc = "get"
    /\ txnCalls' = [txnCalls EXCEPT ![i] =
          IF ~txnDoc.exists
            THEN [c EXCEPT !.pc = "failed", !.error = "session-removed"]
            ELSE [c EXCEPT !.pc = "commit", !.readVersion = txnDoc.version,
                           !.readAttendees = txnDoc.attendees]]
    /\ UNCHANGED <<txnDoc, MergeFrame>>

\* the commit of the attempt: applied when the snapshot is current, else the
\* body runs again, until the attempts are used up
TxnCommit(i) ==
    LET c == txnCalls[i]
        entry == [id |-> c.uid, status |-> c.status]
    IN
    /\ c.pc = "commit"
    /\ IF Conflicts(c)
         THEN /\ txnCalls' = [txnCalls EXCEPT ![i] =
                    IF c.attempts + 1 >= MaxAttempts
                      THEN [c EXCEPT !.pc = "failed", !.error = "aborted",
                                     !.attempts = c.attempts + 1]
                      ELSE [c EXCEPT !.pc = "get", !.attempts = c.attempts + 1]]
              /\ UNCHANGED txnDoc
         ELSE /\ txnDoc' = [txnDoc EXCEPT !.version = @ + 1,
                                          !.attendees = UpsertAttendee(c.readAttendees, entry)]
              /\ txnCalls' = [txnCalls EXCEPT ![i] =
                    [c EXCEPT !.pc = "done", !.committed = TRUE]]
    /\ UNCHANGED MergeFrame

\* the store rejects the transaction with a FirebaseError: the catch block
\* goes on after permission-denied and rethrows anything else
TxnRejected(i, code) ==
    LET c == txnCalls[i] IN
    /\ c.pc \in {"get", "commit"}
    /\ txnCalls' = [txnCalls EXCEPT ![i] =
          IF TransactionErrorTolerated(code)
            THEN [c EXCEPT !.pc = "done", !.error = code]
            ELSE [c EXCEPT !.pc = "failed", !.error = code]]
    /\ UNCHANGED <<txnDoc, MergeFrame>>

InitMerge ==
    /\ HeadStart(TRUE) /\ CreateStart /\ DashStart /\ BucketStart
    /\ txnDoc \in [exists : BOOLEAN, version : {0}, attendees : {<<>>}]
    /\ txnCalls = <<>>

NextMerge ==
    \/ \E uid \in Students : StartMerge(uid)
    \/ \E i \in 1..Len(txnCalls) : TxnGet(i)
    \/ \E i \in 1..Len(txnCalls) : TxnCommit(i)
    \/ \E i \in 1..Len(txnCalls), code \in {"permission-denied", "unavailable"} :
          TxnRejected(i, code)

SpecMerge == InitMerge /\ [][NextMerge]_vars

(***************************************************************************)
(* Session creation: the session document and its public mirror            *)
(***************************************************************************)

\* number of sessions one behaviour launches from the form
MaxCreates == 3

CreateFrame == <<headVars, mergeVars, dashVars, bucketVars>>

\* the documents the two setDoc calls of Promise.all write
CreateWrites == {"session", "mirror"}

\* Promise.all has settled: rejected with the first rejection, or fulfilled
\* once every setDoc has
AllSettled(c) == c.rejected \/ c.pending = {}

\* handleSubmit with coordinates captured and the backend configured, up to
\* await Promise.all([setDoc(sessionRef, ...), setDoc(publicRef, ...)])
StartCreate ==
    /\ ~isSubmitting
    /\ Len(createCalls) < MaxCreates
    /\ isSubmitting' = TRUE
    /\ createCalls' = Append(createCalls,
          [pc |-> "writing", pending |-> CreateWrites, rejected |-> FALSE,
           session |-> FALSE, mirror |-> FALSE])
    /\ UNCHANGED CreateFrame

\* one of the two setDoc calls is answered by the store
SetDocSettles(i, which, ok) ==
    LET c == createCalls[i] IN
    /\ which \in c.pending
    /\ createCalls' = [createCalls EXCEPT ![i] =
          [c EXCEPT !.pending = @ \ {which},
                    !.rejected = @ \/ ~ok,
                    !.session = @ \/ (ok /\ which = "session"),
                    !.mirror = @ \/ (ok /\ which = "mirror")]]
    /\ UNCHANGED <<isSubmitting, CreateFrame>>

\* the continuation after Promise.all: the toast and onSessionCreated, or the
\* catch block; finally setIsSubmitting(false)
CreateSettles(i) ==
    LET c == createCalls[i] IN
    /\ c.pc = "writing" /\ AllSettled(c)
    /\ createCalls' = [createCalls EXCEPT ![i].pc = IF c.rejected THEN "failed" ELSE "done"]
    /\ isSubmitting' = FALSE
    /\ UNCHANGED CreateFrame

InitCreate ==
    /\ HeadStart(TRUE) /\ MergeStart /\ DashStart /\ BucketStart
    /\ isSubmitting = FALSE
    /\ createCalls = <<>>

NextCreate ==
    \/ StartCreate
    \/ \E i \in 1..Len(createCalls), which \in CreateWrites, ok \in BOOLEAN :
          SetDocSettles(i, which, ok)
    \/ \E i \in 1..Len(createCalls) : CreateSettles(i)

SpecCreate == InitCreate /\ [][NextCreate]_vars

(***************************************************************************)
(* The dashboard's upcoming-session count                                  *)
(***************************************************************************)

\* calculateMetrics(sessions).upcomingCount over the hook's sessions state
calculateMetrics ==
    IF tSessions.hasSession /\ sessionUpcoming THEN 1 ELSE 0

\* the count handed to OverviewCards
upcomingCount == calculateMetrics + Cardinality(localSessions)

\* the sessions of combinedSessions that are scheduled in the future and not
\* completed, each id once
UpcomingSessions ==
    IF (SESSION_ID \in localSessions \/ tSessions.hasSession) /\ sessionUpcoming
        THEN {SESSION_ID} ELSE {}

\* handleSubmit of the SessionCreator with both setDoc calls accepted: the
\* session document exists from now on, and onSessionCreated prepends the
\* session to the page's localSessions
CreateFromDashboard ==
    /\ tMounted /\ tKey = SessionTeacher
    /\ ~sessionDoc.exists
    /\ sessionDoc' = [exists |-> TRUE, attendees |-> <<>>]
    /\ tDirty' = TRUE
    /\ localSessions' = localSessions \cup {SESSION_ID}
    /\ UNCHANGED <<session, publicAttendances, attendanceLogs, checkIns, started, lastStart,
                   lastResult, successes, merged,
                   tKey, tMounted, tGen, tSubscribed, tPending, tSessions, tSeq, tShownSeq,
                   deviceVars, hookVars, faceVars, appVars>>

\* the teacher's dashboard is open and subscribed, no session exists yet; the
\* date and time on the form lie ahead or are already past
InitDash ==
    /\ ShellStart(TRUE) /\ KeyStart /\ TaskStart /\ OpStart /\ MockStart /\ QrStart /\ ProxStart
    /\ MergeStart /\ CreateStart /\ BucketStart
    /\ SessionStart(FALSE) /\ HooksStart /\ FaceStart /\ DeviceStart
    /\ session = [hasLocation |-> TRUE, hasToken |-> TRUE, isMock |-> FALSE]
    /\ localSessions = {}
    /\ isDevice = [k \in DeviceKeys |-> TRUE]
    /\ sessionUpcoming \in BOOLEAN

NextDash ==
    \/ CreateFromDashboard
    \/ \E uid \in Students : StartLiveCheckIn(uid)
    \/ CheckInStep
    \/ ListenerStep

SpecDash == InitDash /\ [][NextDash]_vars

(***************************************************************************)
(* The fallback embedding: bucketise                                       *)
(***************************************************************************)

FALLBACK_FEATURE_VECTOR_LENGTH == 128

\* the largest bytes.length tried
MaxBytes == 300

BucketFrame == <<headVars, mergeVars, createVars, dashVars>>

\* Math.ceil(a / b) for positive integers
Ceil(a, b) == (a + b - 1) \div b

Min(a, b) == IF a <= b THEN a ELSE b

\* the for loop of bucketise: the buckets, by index, for which it pushes a
\* component, which are those before the first bucket that starts behind the
\* last byte (where the loop breaks)
PushedBuckets(byteLength, vectorLength) ==
    LET bucketSize == Ceil(byteLength, vectorLength)
        HoldsBytes(bucket) == bucket * bucketSize < Min(bucket * bucketSize + bucketSize, byteLength)
    IN {bucket \in 0..(vectorLength - 1) : \A b \in 0..bucket : HoldsBytes(b)}

\* embedding.length of bucketise(bytes, vectorLength) for bytes.length > 0;
\* normalizeVector maps the vector component by component
bucketise(byteLength, vectorLength) == Cardinality(PushedBuckets(byteLength, vectorLength))

\* the catch block of generateImageEmbedding: the embedding is
\* bucketise(bytes, FALLBACK_FEATURE_VECTOR_LENGTH)
FallbackEmbedding ==
    /\ fallbackLength = 0
    /\ fallbackLength' = bucketise(imageBytes, FALLBACK_FEATURE_VECTOR_LENGTH)
    /\ UNCHANGED <<imageBytes, BucketFrame>>

\* a decoded image of at least one byte (an empty one is rejected before)
InitBucket ==
    /\ HeadStart(TRUE) /\ MergeStart /\ CreateStart /\ DashStart
    /\ imageBytes \in 1..MaxBytes
    /\ fallbackLength = 0

NextBucket == FallbackEmbedding

SpecBucket == InitBucket /\ [][NextBucket]_vars

(***************************************************************************)
(* Device trust properties                                                 *)
(***************************************************************************)

DoneRegCalls == {i \in 1..Len(regCalls) : regCalls[i].pc = "done"}

\* a first registration: physical device, no stored registration, no active device
FreshRegistration(c) ==
    /\ isDevice[c.deviceKey]
    /\ c.storedState = NONE
    /\ c.currentActiveKey = NONE

\* C1: of the students registering one device key, only the student whose
\* directory claim committed is approved for it: a first registration by the
\* owner returns approved, every call by another student returns blocked (with
\* the device-conflict reason whenever its transaction reported the conflict),
\* and no other student's stored registration for that key is ever approved.
C1_FirstClaimWins ==
    /\ \A s \in Students, k \in DeviceKeys :
          devices[s][k].approvalState = "approved" => deviceDirectory[k] = s
    /\ \A i \in DoneRegCalls :
          LET c == regCalls[i] IN
          /\ (deviceDirectory[c.deviceKey] = c.uid /\ c.txnOutcome = "ok" /\ FreshRegistration(c))
                => (c.approvalState = "approved" /\ c.approvalReason = NONE)
          /\ deviceDirectory[c.deviceKey] # c.uid
                => /\ c.approvalState = "blocked"
                   /\ c.txnOutcome \in {"ok", "permission-denied"}
                         => c.approvalReason = DEVICE_CONFLICT_REASON

\* two students have finished registering the same physical key: the owner is
\* approved and the other one is blocked for the conflict
C1_Witness ==
    \E i, j \in DoneRegCalls :
        /\ regCalls[i].uid # regCalls[j].uid
        /\ regCalls[i].deviceKey = regCalls[j].deviceKey
        /\ regCalls[i].txnOutcome = "ok" /\ regCalls[j].txnOutcome = "ok"
        /\ FreshRegistration(regCalls[i]) /\ FreshRegistration(regCalls[j])
        /\ regCalls[i].approvalState = "approved"
        /\ regCalls[j].approvalState = "blocked"
        /\ regCalls[j].approvalReason = DEVICE_CONFLICT_REASON

\* C5: a stored approval state of a registration only ever stays as it is or
\* becomes blocked; in particular blocked never turns into pending or approved.
C5_StoredStateSticky ==
    [][\A s \in Students, k \in DeviceKeys :
          devices[s][k].approvalState # NONE =>
              devices'[s][k].approvalState \in {devices[s][k].approvalState, "blocked"}]_vars

\* C6: the owner named by a directory entry never changes.
C6_OwnerNeverChanges ==
    [][\A k \in DeviceKeys :
          deviceDirectory[k] # NONE => deviceDirectory'[k] = deviceDirectory[k]]_vars

\* a second student's transaction has committed against a key that is owned
C6_Witness ==
    \E i \in 1..Len(regCalls) :
        /\ regCalls[i].txnOutcome = "ok"
        /\ regCalls[i].deviceClaimedByOther
        /\ deviceDirectory[regCalls[i].deviceKey] \in Students \ {regCalls[i].uid}

(***************************************************************************)
(* Attendance properties                                                   *)
(***************************************************************************)

AttendeeEntries(uid) ==
    Cardinality({n \in 1..Len(sessionDoc.attendees) : sessionDoc.attendees[n].id = uid})

\* C2 as claimed: after k >= 1 successful check-ins of a student the session
\* holds exactly one attendee entry for the student, the mirror one record and
\* the log k entries.
C2_ExactlyOneAttendee ==
    \A s \in Students :
        successes[s] >= 1 =>
            /\ AttendeeEntries(s) = 1
            /\ publicAttendances[s].exists
            /\ Len(attendanceLogs[s]) = successes[s]

\* C2 amended: the session never holds more than one entry per student, and
\* after k >= 1 successful check-ins it holds exactly one if a transactional
\* merge of the student committed and none if every merge was refused; the
\* mirror holds one record and the log k entries.
C2_AtMostOneAttendee ==
    \A s \in Students :
        /\ AttendeeEntries(s) <= 1
        /\ successes[s] >= 1 =>
              /\ AttendeeEntries(s) = (IF s \in merged THEN 1 ELSE 0)
              /\ publicAttendances[s].exists
              /\ Len(attendanceLogs[s]) = successes[s]

\* the same student has checked in twice and both merges committed
C2_Witness ==
    \E s \in Students :
        /\ successes[s] = 2
        /\ AttendeeEntries(s) = 1
        /\ Len(attendanceLogs[s]) = 2
        /\ checkIns = EmptyBag

GateFails(device, activeDeviceKey) ==
    \/ ~device.registered
    \/ device.approvalState # "approved"
    \/ (activeDeviceKey # NONE /\ activeDeviceKey # device.deviceKey)

\* C3: a call whose device is missing or not approved, or whose profile names
\* another active device, is rejected, and starting it writes nothing and
\* leaves no operation in flight that could write later.
C3_RejectedWithoutWrite ==
    [][(started' = started + 1 /\ GateFails(lastStart'.device, lastStart'.activeDeviceKey))
          => /\ lastResult'.pc = "rejected"
             /\ lastResult'.wrote = {}
             /\ UNCHANGED <<sessionDoc, publicAttendances, attendanceLogs, checkIns>>]_vars

\* an approved device was rejected because the profile names another device
C3_Witness ==
    /\ lastResult.pc = "rejected" /\ lastResult.error = "other-device"
    /\ lastStart.device.approvalState = "approved"
    /\ lastStart.activeDeviceKey \notin {NONE, lastStart.device.deviceKey}

C8_PermissionDeniedTolerated ==
    /\ \A c \in BagToSet(checkIns) :
          c.txnOutcome = "permission-denied" =>
              (c.pc \in {"setPublic", "addLog"} /\ "sync-pending" \in c.notes)
    /\ lastResult.txnOutcome = "permission-denied" =>
          /\ lastResult.error \in {NONE, "token-missing", "unavailable"}
          /\ lastResult.error = "unavailable" => lastResult.wrote \subseteq {"public"}
          /\ lastResult.pc = "done" =>
                /\ lastResult.wrote = {"public", "log"}
                /\ "sync-pending" \in lastResult.notes

\* a call returned although its merge was refused
C8_Witness ==
    /\ lastResult.pc = "done"
    /\ lastResult.txnOutcome = "permission-denied"
    /\ \E s \in Students : publicAttendances[s].exists /\ AttendeeEntries(s) = 0

(***************************************************************************)
(* Dashboard and hook properties                                           *)
(***************************************************************************)

\* C7: once a check-in of a student has returned successfully, the
\* dashboard's combined session list eventually shows the student among the
\* attendees of the session.
C7_EventuallyShown ==
    \A s \in Students : (successes[s] > 0) ~> (s \in ShownAttendees)

\* C9: a hook's state is only ever set by a callback of its current
\* registration while that registration is still subscribed: never by a
\* callback of a registration that the cleanup has unsubscribed.
C9_NoStaleCallback ==
    [][/\ (tSessions' # tSessions /\ tSessions'.kind = "snapshot")
             => (tSubscribed /\ tSessions'.gen = tGen)
       /\ \A h \in HookNames :
             (sHooks'[h].gen = sHooks[h].gen /\ sHooks'[h].payload # sHooks[h].payload)
                 => (sHooks[h].subscribed /\ sHooks'[h].stateGen = sHooks[h].gen)]_vars

(***************************************************************************)
(* Face dataset properties                                                 *)
(***************************************************************************)

Range(seq) == {seq[i] : i \in 1..Len(seq)}

\* C10: the stored dataset holds at most 10 samples for every (studentId,
\* classId) pair; and when the operation that saved last chose from more than
\* 10 samples of its pair (the stored ones it read and the ones it created),
\* every sample it dropped is older than every sample it kept, the newest
\* sample is kept, and an analysis keeps exactly 10.
C10_AtMostTenNewestKept ==
    /\ \A studentId \in Students, classId \in FaceClassIds :
          Len(PairSamples(faceSamples, studentId, classId)) <= MAX_SAMPLES_PER_STUDENT
    /\ faceLast.kind \in {"seed", "analyze"} =>
          LET kept == Range(CapturedAt(PairSamples(faceSamples, faceLast.studentId,
                                                   faceLast.classId)))
              candidates == Range(faceLast.candidates)
          IN /\ kept \subseteq candidates
             /\ \A k \in candidates : (\A c \in candidates : c <= k) => k \in kept
             /\ Len(faceLast.candidates) > MAX_SAMPLES_PER_STUDENT =>
                   /\ \A d \in candidates \ kept, k \in kept : d < k
                   /\ faceLast.kind = "analyze" =>
                         Cardinality(kept) = MAX_SAMPLES_PER_STUDENT

\* an analysis found 10 stored samples of its pair, added one and saved: the
\* pair holds 10 and the oldest of the 11 is gone
C10_Witness ==
    /\ faceLast.kind = "analyze"
    /\ Len(faceLast.candidates) = MAX_SAMPLES_PER_STUDENT + 1
    /\ Len(PairSamples(faceSamples, faceLast.studentId, faceLast.classId))
          = MAX_SAMPLES_PER_STUDENT
    /\ faceLast.candidates[1] \notin
          Range(CapturedAt(PairSamples(faceSamples, faceLast.studentId, faceLast.classId)))

\* C11: all stored samples of one student have the same embedding length,
\* whatever their class id.
C11_OneLengthPerStudent ==
    \A i, j \in 1..Len(faceSamples) :
        faceSamples[i].studentId = faceSamples[j].studentId
            => faceSamples[i].dim = faceSamples[j].dim

(***************************************************************************)
(* App shell properties                                                    *)
(***************************************************************************)

C13_NoRepeatedScan ==
    [][\A v \in ScanValues :
          scanStarts'[v] > scanStarts[v] => v \notin scanHandled]_vars

(***************************************************************************)
(* Profile bootstrap properties                                            *)
(***************************************************************************)

\* the call of ensureDeviceRegistration for student s that writes the profile in this step
TrustWrites(s) ==
    \E i \in 1..Len(regCalls) :
        /\ regCalls[i].uid = s
        /\ regCalls[i].pc = "updateProfile"
        /\ regCalls'[i].pc = "done"

\* C14: the activeDeviceKey, deviceApprovalState and deviceApprovalReason that
\* ensureDeviceRegistration has written to a student's profile are changed
\* only by the profile update of an ensureDeviceRegistration call of that
\* student; steps of ensureStudentProfile and of the onboarding save leave
\* them as they are, whatever registration runs beside them.
C14_OnlyDeviceTrustWrites ==
    [][\A s \in Students :
          (s \in trustWritten /\ profiles'[s] # profiles[s]) => TrustWrites(s)]_vars

(***************************************************************************)
(* Device key properties                                                   *)
(***************************************************************************)

\* C15: a call of getOrCreateDeviceKey generates a key only while no key is
\* stored in the secure, the plain or the legacy entry, and a call started
\* while a key was stored returns that key.
C15_StoredKeyIsKept ==
    [][/\ keyClock' > keyClock =>
            (keyStore.secure = NoKey /\ keyStore.plain = NoKey /\ keyStore.legacy = NoKey)
       /\ \A i \in 1..Len(keyCalls') :
            (keyCalls'[i].pc = "done" /\ keyCalls'[i].storedAtStart # NoKey)
                => keyCalls'[i].key = keyCalls'[i].storedAtStart]_vars

(***************************************************************************)
(* Free-period task properties                                             *)
(***************************************************************************)

\* C16: no request that was sent is still awaiting its response more than 8
\* seconds after it was issued, and a call whose timeout fired has returned
\* the fallback list with isFallback = true, whether the call was made
\* directly or by the useFreePeriodTasks hook.
C16_AbortedAfterTimeout ==
    \A i \in 1..Len(taskReqs) :
        /\ (taskReqs[i].sent /\ taskReqs[i].pc = "fetch") => taskReqs[i].age <= TIMEOUT_SECONDS
        /\ taskReqs[i].timedOut => (taskReqs[i].pc = "done" /\ taskReqs[i].isFallback)

(***************************************************************************)
(* Properties without a configured backend                                 *)
(***************************************************************************)

C18_DemoNeverBlocked ==
    \A s \in Students : mockDevices[s] # "blocked" /\ mockProfiles[s] # "blocked"

(***************************************************************************)
(* Session QR code properties                                              *)
(***************************************************************************)

\* C19: whatever QR text handleSubmit produced, parseQrPayload accepts it and
\* returns the sessionId, the sessionToken and the latitude, longitude and
\* accuracy of the session that was created.
C19_QrRoundTrip ==
    qrScan.status # NONE =>
        /\ qrScan.status = "accepted"
        /\ qrScan.sessionId = qrCreated.sessionId
        /\ qrScan.sessionToken = qrCreated.sessionToken
        /\ qrScan.latitude = qrCreated.latitude
        /\ qrScan.longitude = qrCreated.longitude
        /\ qrScan.accuracy = qrCreated.accuracy

(***************************************************************************)
(* Proximity properties                                                    *)
(***************************************************************************)

\* C20: for one pair of positions computeProximity is never negative, and
\* after the student's or the session's reported accuracy was raised it is not
\* larger than it was before.
C20_NonNegativeAndMonotone ==
    proxOut >= 0 /\ proxOut <= proxPrev

\* C20 happens: a raised accuracy took a positive distance down to the floor
C20_Witness ==
    /\ proxLoc.rawDistance > 0
    /\ proxPrev > 0 /\ proxOut = 0
    /\ proxLoc.accuracy # <<>> /\ proxLoc.targetAccuracy # <<>>
    /\ proxLoc.rawDistance < Max(0, proxLoc.accuracy[1]) + Max(0, proxLoc.targetAccuracy[1])

(***************************************************************************)
(* One approved device per student                                         *)
(***************************************************************************)

ApprovedDevices(s) == {k \in DeviceKeys : devices[s][k].approvalState = "approved"}

\* C21: of the device registrations of one student at most one is in state
\* approved, whatever ensureDeviceRegistration calls were made from that
\* student's devices.
C21_OneApprovedDevice ==
    \A s \in Students : Cardinality(ApprovedDevices(s)) <= 1

(***************************************************************************)
(* Concurrent check-ins                                                    *)
(***************************************************************************)

\* C22: when students check in to one session concurrently, the session's
\* attendees array holds an entry for every student whose transactional merge
\* committed.
C22_NoAttendeeLost ==
    \A i \in 1..Len(txnCalls) :
        txnCalls[i].committed => txnCalls[i].uid \in AttendeeIds(txnDoc.attendees)

\* C22 happens: two students' merges overlapped, one had to run its body
\* again, both committed and every call has ended
C22_Witness ==
    /\ \A i \in 1..Len(txnCalls) : txnCalls[i].pc \in {"done", "failed"}
    /\ \E i, j \in 1..Len(txnCalls) :
          /\ txnCalls[i].uid # txnCalls[j].uid
          /\ txnCalls[i].committed /\ txnCalls[j].committed
          /\ txnCalls[j].attempts > 0

(***************************************************************************)
(* What a failed check-in leaves behind                                    *)
(***************************************************************************)

\* C23: a recordAttendance call that ends with an error has written none of
\* the session attendee entry, the public attendance record and the
\* attendance log entry.
C23_ErrorWritesNothing ==
    lastResult.error # NONE => lastResult.wrote = {}

(***************************************************************************)
(* Order of the teacher's snapshots                                        *)
(***************************************************************************)

\* C24: the sessions state derived from a snapshot delivered later is never
\* overwritten by the state derived from a snapshot delivered earlier.
C24_LaterSnapshotWins ==
    [][tShownSeq' >= tShownSeq]_vars

(***************************************************************************)
(* Submissions from the check-in screen                                    *)
(***************************************************************************)

\* C25: at most one recordAttendance call started from the check-in screen is
\* pending at any time.
C25_OneSubmissionInFlight ==
    submitCalls <= 1

(***************************************************************************)
(* Completions that arrive after a reset                                   *)
(***************************************************************************)


\* C26: when a handleBarcodeScanned or handleSubmitAttendance run that was
\* started before the last reset of the flow completes, the step, the pending
\* session and the processing latch of the flow started by that reset stay as
\* they are.
C26_StaleCompletionIsIgnored ==
    [][LET staleScanEnds == \E v \in ScanValues :
                                /\ scanStarts[v] = 0
                                /\ CopiesIn(v, scanCalls') < CopiesIn(v, scanCalls)
           staleSubmitEnds == ~hasPending /\ submitCalls' < submitCalls
       IN (staleScanEnds \/ staleSubmitEnds)
              => UNCHANGED <<scanStep, hasPending, isProcessing>>]_vars

(***************************************************************************)
(* A created session and its mirror                                        *)
(***************************************************************************)

\* C27: once a session-creation attempt against the configured backend has
\* finished, with success or with an error, the session document and its
\* public mirror either both exist or both do not.
C27_BothOrNeither ==
    \A i \in 1..Len(createCalls) :
        createCalls[i].pc \in {"done", "failed"}
            => (createCalls[i].session <=> createCalls[i].mirror)

(***************************************************************************)
(* Captures of a student who is already enrolled                           *)
(***************************************************************************)

\* the stored dataset holds samples of the student for the class or for the
\* profile baseline
HasReference(samples, studentId, classId) ==
    \/ Len(PairSamples(samples, studentId, classId)) > 0
    \/ Len(PairSamples(samples, studentId, PROFILE_CLASS_ID)) > 0

\* enrolled = seededSamples.length === 0: the capture is the only candidate;
\* verified is then left at true without a distance
Enrolled(op) == Len(op.candidates) = 1

\* C28: a face capture of a student for whom the dataset holds reference
\* samples (of the class or of the baseline) is not treated as an enrollment,
\* so that it is verified only by its distance to their centroid.
C28_NoEnrollmentOverReference ==
    [][\A op \in faceOps' \ faceOps :
          (op.kind = "analyze" /\ HasReference(faceSamples, op.studentId, op.classId))
              => ~Enrolled(op)]_vars

(***************************************************************************)
(* The upcoming-session count                                              *)
(***************************************************************************)

\* C29: the upcoming-session count on the dashboard is the number of distinct
\* sessions scheduled in the future and not completed; a session created from
\* the dashboard counts once, also after the subscription delivered it.
C29_UpcomingCountedOnce ==
    upcomingCount = Cardinality(UpcomingSessions)

(***************************************************************************)
(* Length of the fallback embedding                                        *)
(***************************************************************************)

\* C30: the fallback embedding has exactly 128 components for every
\* non-empty image byte stream, whatever its number of bytes.
C30_Always128Components ==
    fallbackLength # 0 => fallbackLength = FALLBACK_FEATURE_VECTOR_LENGTH

====
